---- MODULE Spec2Model ----
(***************************************************************************)
(* Renko chart servers: the tick-to-Renko pipeline of                      *)
(* src/intractive_app.py (file-selection server: process_tick_data,        *)
(* load_file, cache_info, renko_cache, server_stats) and the brick OHLC    *)
(* synthesis of src/main.py and src/unnamed/part_000 (single-dataset       *)
(* servers: generate_renko_data).                                          *)
(*                                                                         *)
(* Numbers.  Prices are integers.  A brick size is kept exactly as the     *)
(* rational square  size^2 = n / d  (record [n, d]); d = 0 is NaN (the     *)
(* pandas std of a single value).  A brick-level price is the linear form  *)
(* a + b * size / 10  (record [a, b]) so that value - size and the 10 %    *)
(* padding are exact.                                                      *)
(***************************************************************************)
EXTENDS Integers, Sequences, FiniteSets, TLC

\* ------------------------------------------------------------------ bounds
MaxBars == 4
MaxAtr == 3
MaxRequests == 2
MaxAdvances == 2
MaxChanges == 1
MaxTicks == 3

\* ------------------------------------------------------- program constants
TTL == 300
SampleLenMain == 50
FallbackLenMain == 20
FallbackLenApp == 50
SliceLenMain == 50
SliceLenApp == 100
SampleLenApp == 150
FixedSize == 2

\* ----------------------------------------------------------------- numbers
Abs(x) ==
    IF x < 0 THEN -x ELSE x

Sign(x) ==
    IF x > 0 THEN 1 ELSE IF x < 0 THEN -1 ELSE 0

RECURSIVE SumSeq(_)
SumSeq(s) ==
    IF s = <<>> THEN 0 ELSE Head(s) + SumSeq(Tail(s))

Closes(ohcl) ==
    [i \in 1..Len(ohcl) |-> ohcl[i].close]

Squares(s) ==
    [i \in 1..Len(s) |-> s[i] * s[i]]

NaNSize ==
    [n |-> 0, d |-> 0]

IntSize(k) ==
    [n |-> k * k, d |-> 1]

\* size is a number (not NaN)
IsNum(sz) ==
    sz.d > 0

\* abs(c) >= size, false when size is NaN
GeSize(c, sz) ==
    IsNum(sz) /\ c * c * sz.d >= sz.n

\* abs(c) < size, false when size is NaN
LtSize(c, sz) ==
    IsNum(sz) /\ c * c * sz.d < sz.n

\* abs(c) = size
EqSize(c, sz) ==
    IsNum(sz) /\ c * c * sz.d = sz.n

SizePositive(sz) ==
    IsNum(sz) /\ sz.n > 0

Price(v) ==
    [a |-> v, b |-> 0]

\* x + k tenths of the size
PlusTenths(x, k) ==
    [a |-> x.a, b |-> x.b + k]

\* x <= y for linear forms over the size sz
LeqN(x, y, sz) ==
    LET B == x.b - y.b
        A == 10 * (y.a - x.a)
    IN  IF ~IsNum(sz) THEN x.b = 0 /\ y.b = 0 /\ A >= 0
        ELSE IF B = 0 THEN A >= 0
        ELSE IF B > 0 THEN A >= 0 /\ sz.n * B * B <= A * A * sz.d
        ELSE A >= 0 \/ sz.n * B * B >= A * A * sz.d

EqN(x, y, sz) ==
    LeqN(x, y, sz) /\ LeqN(y, x, sz)

MaxN(x, y, sz) ==
    IF LeqN(x, y, sz) THEN y ELSE x

MinN(x, y, sz) ==
    IF LeqN(x, y, sz) THEN x ELSE y

\* --------------------------------------------------------- brick builders
\* ohcl_df['close'].std() * 0.5: half the pandas (N-1 divisor) standard
\* deviation, NaN for a single bar.  size^2 = (N*S2 - S1^2) / (4*N*(N-1)).
StdHalf(ohcl) ==
    LET c == Closes(ohcl)
        N == Len(c)
        S1 == SumSeq(c)
        S2 == SumSeq(Squares(c))
    IN  [n |-> N * S2 - S1 * S1, d |-> 4 * N * (N - 1)]

NoRetvals ==
    [renko_bricks |-> <<>>, renko_dates |-> <<>>, renko_size |-> NaNSize]

\* a loop that emits on any move, without the threshold
FallbackEmitsAnyMove(price_change, brick_size) ==
    price_change # 0 \/ GeSize(price_change, brick_size)

\* if abs(price_change) >= brick_size
FallbackEmits(price_change, brick_size) ==
    GeSize(price_change, brick_size)

\* one iteration of "for idx, row in ohcl_df.iterrows()"; st carries
\* last_brick_price, renko_bricks, renko_dates
FallbackRow(st, row, brick_size) ==
    LET price_change == row.close - st.last_brick_price
    IN  IF FallbackEmits(price_change, brick_size)
        THEN [last_brick_price |-> row.close,
              renko_bricks |-> Append(st.renko_bricks, Price(row.close)),
              renko_dates |-> Append(st.renko_dates, row.date)]
        ELSE st

FallbackStart(ohcl) ==
    [last_brick_price |-> ohcl[1].close, renko_bricks |-> <<>>, renko_dates |-> <<>>]

RECURSIVE FallbackLoop(_, _, _, _)
FallbackLoop(st, ohcl, i, brick_size) ==
    IF i > Len(ohcl) THEN st
    ELSE FallbackLoop(FallbackRow(st, ohcl[i], brick_size), ohcl, i + 1, brick_size)

\* the whole except-branch of process_tick_data: retvals of the fallback
FallbackRetvals(ohcl) ==
    LET st == FallbackLoop(FallbackStart(ohcl), ohcl, 1, StdHalf(ohcl))
    IN  [renko_bricks |-> st.renko_bricks,
         renko_dates |-> st.renko_dates,
         renko_size |-> StdHalf(ohcl)]

\* The renko calculation done inside mplfinance (not part of the repository):
\* the walk of the design, with an integer brick size s.  One bar emits
\* |delta| \div s bricks, each one size beyond the last.
RECURSIVE WalkEmit(_, _, _, _, _)
WalkEmit(st, close, date, s, k) ==
    IF k = 0 THEN st
    ELSE LET value == st.last_brick_price + Sign(close - st.last_brick_price) * s
         IN  WalkEmit([last_brick_price |-> value,
                       renko_bricks |-> Append(st.renko_bricks, Price(value)),
                       renko_dates |-> Append(st.renko_dates, date)],
                      close, date, s, k - 1)

RECURSIVE WalkLoop(_, _, _, _)
WalkLoop(st, ohcl, i, s) ==
    IF i > Len(ohcl) THEN st
    ELSE LET delta == ohcl[i].close - st.last_brick_price
         IN  WalkLoop(WalkEmit(st, ohcl[i].close, ohcl[i].date, s, Abs(delta) \div s),
                      ohcl, i + 1, s)

MpfRetvals(ohcl, s) ==
    LET st == WalkLoop(FallbackStart(ohcl), ohcl, 2, s)
    IN  [renko_bricks |-> st.renko_bricks,
         renko_dates |-> st.renko_dates,
         renko_size |-> IntSize(s)]

\* what mpf.plot may do with these bars: raise, or succeed with brick size s
MpfOutcomes(ohcl) ==
    {0} \cup (IF Len(ohcl) >= 2 THEN 1..MaxAtr ELSE {})

\* the outcomes of mpf.plot explored in the server: it raises, or it succeeds
\* with the largest brick size
ServerMpfOutcomes(ohcl) ==
    MpfOutcomes(ohcl) \cap {0, MaxAtr}

\* ------------------------------------------------------ brick OHLC synthesis
\* a first open left at the brick's own value
FirstOpenUnset(value, sz) ==
    value

\* renko_df.loc[index[0], 'open'] = renko_bricks[0] - renko_size[0]
FirstOpen(value, sz) ==
    PlusTenths(value, -10)

\* renko_df['open'] = renko_df['renko_bricks'].shift(1), then the first open
OpenOf(bricks, i, sz) ==
    IF i = 1 THEN FirstOpen(bricks[1], sz) ELSE bricks[i - 1]

\* max(open, renko_bricks) + renko_size * 0.1
PaddedHigh(open, value, sz) ==
    PlusTenths(MaxN(open, value, sz), 1)

\* min(open, renko_bricks) - renko_size * 0.1
PaddedLow(open, value, sz) ==
    PlusTenths(MinN(open, value, sz), -1)

\* process_tick_data: "Calculate OHLC for Renko bricks"
SynthOHLC(rv) ==
    [i \in 1..Len(rv.renko_bricks) |->
        LET open == OpenOf(rv.renko_bricks, i, rv.renko_size)
            value == rv.renko_bricks[i]
        IN  [renko_bricks |-> value,
             renko_dates |-> rv.renko_dates[i],
             renko_size |-> rv.renko_size,
             open |-> open,
             high |-> PaddedHigh(open, value, rv.renko_size),
             low |-> PaddedLow(open, value, rv.renko_size),
             close |-> value]]

\* ---------------------------------------------- src/main.py (simple server)
\* sample data served when the tick file is missing
MainSample ==
    [renko_bricks |-> [i \in 1..SampleLenMain |->
                          Price(400 + (i - 1) * 2 + ((i - 1) % 5) * 3)],
     renko_dates |-> [i \in 1..SampleLenMain |-> i],
     renko_size |-> IntSize(FixedSize)]

\* "Fallback sample data" of the outer except
MainFallback ==
    [renko_bricks |-> [i \in 1..FallbackLenMain |-> Price(400 + (i - 1) * 2)],
     renko_dates |-> [i \in 1..FallbackLenMain |-> i],
     renko_size |-> IntSize(FixedSize)]

\* closes[:k] as bricks of the fixed size
SliceRetvals(ohcl, k) ==
    [renko_bricks |-> [i \in 1..k |-> Price(ohcl[i].close)],
     renko_dates |-> [i \in 1..k |-> ohcl[i].date],
     renko_size |-> IntSize(FixedSize)]

\* retvals of main.py generate_renko_data.  plt is never imported there, so
\* plt.ioff() raises inside the inner try and the inner except always runs;
\* its three columns have the same length only with at least 50 bars,
\* otherwise pd.DataFrame raises and the outer except serves MainFallback.
MainRetvals(exists, ohcl) ==
    IF ~exists THEN MainSample
    ELSE IF Len(ohcl) >= SliceLenMain THEN SliceRetvals(ohcl, SliceLenMain)
    ELSE MainFallback

\* main.py: high = max(open, bricks), low = min(open, bricks): no padding
SynthMain(rv) ==
    [i \in 1..Len(rv.renko_bricks) |->
        LET open == OpenOf(rv.renko_bricks, i, rv.renko_size)
            value == rv.renko_bricks[i]
        IN  [renko_bricks |-> value,
             renko_dates |-> rv.renko_dates[i],
             renko_size |-> rv.renko_size,
             open |-> open,
             high |-> MaxN(open, value, rv.renko_size),
             low |-> MinN(open, value, rv.renko_size),
             close |-> value]]

\* ------------------------------- src/unnamed/part_000 (single-dataset server)
\* "Fallback data" returned by the except of generate_renko_data
AppFallbackRows ==
    [i \in 1..FallbackLenApp |->
        [renko_bricks |-> Price(450 + (i - 1) * 2),
         renko_dates |-> i,
         renko_size |-> IntSize(FixedSize),
         open |-> Price(448 + (i - 1) * 2),
         high |-> Price(452 + (i - 1) * 2),
         low |-> Price(448 + (i - 1) * 2),
         close |-> Price(450 + (i - 1) * 2)]]

\* part_000: "Calculate OHLC for Renko bricks" (same statements as SynthOHLC)
SynthApp(rv) ==
    [i \in 1..Len(rv.renko_bricks) |->
        LET open == OpenOf(rv.renko_bricks, i, rv.renko_size)
            value == rv.renko_bricks[i]
        IN  [renko_bricks |-> value,
             renko_dates |-> rv.renko_dates[i],
             renko_size |-> rv.renko_size,
             open |-> open,
             high |-> PaddedHigh(open, value, rv.renko_size),
             low |-> PaddedLow(open, value, rv.renko_size),
             close |-> value]]

\* what np.random.random() contributes to the sample prices: a step up or
\* down per sample (the values drawn are bounded to these two)
NpDraws ==
    {-1, 1}

\* "Enhanced sample data generation": 150 hourly prices from 450.0
AppSampleRetvals(rnd) ==
    [renko_bricks |-> [i \in 1..SampleLenApp |-> Price(450 + i * rnd)],
     renko_dates |-> [i \in 1..SampleLenApp |-> i],
     renko_size |-> IntSize(FixedSize)]

\* generate_renko_data returns from its try block (not from its except).
\* np is bound only by the __main__ block: rnd = 0 stands for the module
\* imported by a WSGI server, where np.random raises NameError.
AppGenerateOk(exists, ohcl, mpf, rnd) ==
    IF ~exists THEN rnd # 0
    ELSE mpf > 0 \/ Len(ohcl) >= SliceLenApp

\* part_000 generate_renko_data; mpf = 0 when mpf.plot raises, and then the
\* three columns have the same length only with at least 100 bars; whenever
\* the try block raises, the except returns AppFallbackRows.
AppGenerateData(exists, ohcl, mpf, rnd) ==
    IF ~AppGenerateOk(exists, ohcl, mpf, rnd) THEN AppFallbackRows
    ELSE IF ~exists THEN SynthApp(AppSampleRetvals(rnd))
    ELSE IF mpf > 0 THEN SynthApp(MpfRetvals(ohcl, mpf))
    ELSE SynthApp(SliceRetvals(ohcl, SliceLenApp))

\* ------------------------------------------------------------- resampling
BucketSeconds == 60

\* buckets closed on the left: a tick on a boundary falls in the next bucket
LabelLeftClosed(t) ==
    (t \div BucketSeconds + 1) * BucketSeconds

\* label='right', closed='right': the bucket end at or after t
Label(t) ==
    ((t + BucketSeconds - 1) \div BucketSeconds) * BucketSeconds

RECURSIVE SortSet(_)
SortSet(S) ==
    IF S = {} THEN <<>>
    ELSE LET m == CHOOSE x \in S : \A y \in S : x <= y
         IN  <<m>> \o SortSet(S \ {m})

RECURSIVE MaxOf(_)
MaxOf(s) ==
    IF Len(s) = 1 THEN s[1]
    ELSE LET m == MaxOf(Tail(s)) IN IF s[1] >= m THEN s[1] ELSE m

RECURSIVE MinOf(_)
MinOf(s) ==
    IF Len(s) = 1 THEN s[1]
    ELSE LET m == MinOf(Tail(s)) IN IF s[1] <= m THEN s[1] ELSE m

\* an empty cell of the size column: read_csv gives NaN
MissingSize ==
    -1

\* 'size': 'sum' skips NaN
SizeSum(rows) ==
    SumSeq([i \in 1..Len(rows) |->
               IF rows[i].size = MissingSize THEN 0 ELSE rows[i].size])

\* a bar whose high and low are taken from the first tick alone
BarOfOpenOnly(e, rows) ==
    [date |-> e, open |-> rows[1].price, high |-> rows[1].price,
     low |-> rows[1].price, close |-> rows[Len(rows)].price,
     volume |-> SizeSum(rows)]

\* .agg({'price': 'ohlc', 'size': 'sum'}) of one non-empty bucket, its rows
\* in time order
BarOf(e, rows) ==
    LET p == [i \in 1..Len(rows) |-> rows[i].price]
    IN  [date |-> e, open |-> p[1], high |-> MaxOf(p), low |-> MinOf(p),
         close |-> p[Len(p)],
         volume |-> SizeSum(rows)]

RECURSIVE Concat(_)
Concat(ss) ==
    IF ss = <<>> THEN <<>> ELSE Head(ss) \o Concat(Tail(ss))

\* resample() orders the rows by their index before it groups them (a stable
\* sort: rows of equal timestamp keep their file order)
SortTicks(ticks) ==
    LET times == SortSet({ticks[i].timestamp : i \in 1..Len(ticks)})
    IN  Concat([j \in 1..Len(times) |->
                   SelectSeq(ticks, LAMBDA r : r.timestamp = times[j])])

\* one bar per tick, so that two ticks of a bucket give two bars
ResamplePerTick(ticks) ==
    [j \in 1..Len(ticks) |-> BarOf(Label(ticks[j].timestamp), <<ticks[j]>>)]

\* tick_df.resample('1min', closed='right', label='right').agg(...).dropna():
\* one bar per bucket that holds a tick, in time order
Resample(ticks) ==
    LET labels == SortSet({Label(ticks[i].timestamp) : i \in 1..Len(ticks)})
        sorted == SortTicks(ticks)
    IN  [j \in 1..Len(labels) |->
            BarOf(labels[j], SelectSeq(sorted, LAMBDA r : Label(r.timestamp) = labels[j]))]

\* ------------------------------------------------ process_tick_data, as a whole
\* a failure that is swallowed: an empty result is returned as if computed
FailedSilently(exc) ==
    [exc |-> "", renko_df |-> <<>>, original_rows |-> 0, file_path |-> <<>>]

Failed(exc) ==
    [exc |-> exc, renko_df |-> <<>>, original_rows |-> 0, file_path |-> <<>>]

\* a conversion that stores an empty DataFrame instead of raising
ConvertRetvalsNoCheck(rv, original_rows, file_path) ==
    [exc |-> "", renko_df |-> SynthOHLC(rv), original_rows |-> original_rows,
     file_path |-> file_path]

\* renko_df = pd.DataFrame(retvals); raise if empty; brick OHLC
ConvertRetvals(rv, original_rows, file_path) ==
    IF Len(rv.renko_bricks) = 0 THEN Failed("ValueError: No Renko data generated")
    ELSE [exc |-> "", renko_df |-> SynthOHLC(rv), original_rows |-> original_rows,
          file_path |-> file_path]

NoFile ==
    [ext |-> "", has_price |-> FALSE, ticks |-> <<>>]

\* what process_tick_data computes from the file it finds (mpf = 0: mpf.plot
\* raises): the exception it raises, or renko_df, original_rows and file_found
ProcessOutcome(filename, file, mpf) ==
    IF file = NoFile THEN Failed("FileNotFoundError")
    ELSE IF ~file.has_price THEN Failed("ValueError: Price column not found")
    ELSE LET ohcl == Resample(file.ticks)
         IN  IF Len(ohcl) = 0
             THEN Failed("ValueError: No data remained after resampling to OHLC")
             ELSE ConvertRetvals(IF mpf > 0 THEN MpfRetvals(ohcl, mpf)
                                 ELSE FallbackRetvals(ohcl),
                                 Len(file.ticks), <<filename, file.ext>>)

\* ------------------------------------------------------------------ inputs
Prices ==
    {100, 101, 103, 104, 107}

ScenarioC ==
    <<100, 103, 107, 104, 101>>

CloseSeqs ==
    UNION {[1..n -> Prices] : n \in 1..MaxBars} \cup {ScenarioC}

\* a bar made of one tick: open = high = low = close
BarsOfCloses(c) ==
    [i \in 1..Len(c) |->
        [date |-> i, open |-> c[i], high |-> c[i], low |-> c[i], close |-> c[i],
         volume |-> 1]]

BarInputs ==
    {BarsOfCloses(c) : c \in CloseSeqs}

Variants ==
    {"interactive", "main", "app"}

\* ------------------------------------------------------------------- state
VARIABLES
    variant,            \* which program builds the bricks
    tick_file_exists,   \* main.py / part_000: os.path.exists(tick_file_path)
    tick_df,            \* the ticks loaded from the file, in file order
    strategy_log,       \* history: the brick-size strategies tried, in order
    ohcl_df,            \* the resampled bars handed to the builder
    bpc,                \* position in the builder
    brick_size,         \* fallback: brick_size
    last_brick_price,   \* fallback: last_brick_price
    row_i,              \* fallback: position of iterrows()
    renko_bricks,       \* fallback: renko_bricks
    renko_dates,        \* fallback: renko_dates
    retvals,            \* retvals
    renko_df,           \* the brick DataFrame with its OHLC
    row_log,            \* history: per processed row, what the loop saw and did
    renko_cache,        \* renko_cache: filename -> entry
    server_stats,       \* server_stats counters
    now,                \* datetime.now(), in seconds
    files,              \* data/tick/: filename -> the tick file found there
    thr,                \* the request each server thread is handling: its locals,
                        \* and as history what it observed (obs, obs_age), how
                        \* often it called process_tick_data (calls), whether it
                        \* wrote the cache (wrote), which store it served (cid),
                        \* which file and brick size its computation had (src)
    next_cid,           \* history: number of the next cache store
    n_requests,         \* requests received so far
    n_advances,         \* clock advances so far
    n_changes           \* file changes so far

bvars ==
    <<variant, tick_file_exists, tick_df, strategy_log, ohcl_df, bpc, brick_size,
      last_brick_price, row_i, renko_bricks, renko_dates, retvals, renko_df, row_log>>

svars ==
    <<renko_cache, server_stats, now, files, thr, next_cid, n_requests,
      n_advances, n_changes>>

vars ==
    <<bvars, svars>>

\* ------------------------------------------- the file-selection server
Threads ==
    {"t1", "t2"}

Keys ==
    {"SPY"}

Tick(t, p) ==
    [timestamp |-> t, price |-> p, size |-> 1]

\* tick files that may lie in data/tick/
TickFiles ==
    { [ext |-> ".parquet", has_price |-> TRUE,
       ticks |-> <<Tick(0, 100), Tick(61, 102), Tick(100, 103), Tick(125, 107)>>],
      [ext |-> ".csv", has_price |-> TRUE,
       ticks |-> <<Tick(5, 100), Tick(65, 101)>>],
      [ext |-> ".csv", has_price |-> TRUE,
       ticks |-> <<Tick(5, 100)>>] }

FileStates ==
    TickFiles \cup {NoFile}

\* tick files process_tick_data cannot use: one without a price column (nor
\* close, last, trade_price, px_last), one with a header and no rows
BrokenFiles ==
    { [ext |-> ".csv", has_price |-> FALSE, ticks |-> <<Tick(5, 100)>>],
      [ext |-> ".csv", has_price |-> TRUE, ticks |-> <<>>] }

AllFileStates ==
    FileStates \cup BrokenFiles

\* how far the clock moves in one step
Jumps ==
    {TTL \div 2}

NoEntry ==
    [cid |-> 0]

NoResponse ==
    [status |-> 0]

IdleThread ==
    [pc |-> "idle", filename |-> "", tmp |-> 0, obs |-> "none", obs_age |-> 0,
     renko_df |-> <<>>, original_rows |-> 0, file_path |-> <<>>,
     exc |-> "", calls |-> 0, wrote |-> FALSE, cid |-> 0, bricks_built |-> -1,
     refresh |-> FALSE, src |-> <<>>, response |-> NoResponse]

InitServer ==
    /\ renko_cache = [k \in Keys |-> NoEntry]
    /\ server_stats = [requests_served |-> 0, files_processed |-> 0, errors |-> 0]
    /\ now = 0
    /\ files \in [Keys -> FileStates]
    /\ thr = [t \in Threads |-> IdleThread]
    /\ next_cid = 1
    /\ n_requests = 0
    /\ n_advances = 0
    /\ n_changes = 0

\* a value of float(row[...]): the linear form together with its size
Float(x, sz) ==
    IF x.b = 0 THEN [a |-> x.a, b |-> 0, sz |-> IntSize(0)]
    ELSE [a |-> x.a, b |-> x.b, sz |-> sz]

\* a conversion that dates every record from the clock, as the code does for
\* a frame without renko_dates
ToJsonClockDates(df) ==
    [i \in 1..Len(df) |->
        [date |-> now - (Len(df) - i),
         open |-> Float(df[i].open, df[i].renko_size),
         high |-> Float(df[i].high, df[i].renko_size),
         low |-> Float(df[i].low, df[i].renko_size),
         close |-> Float(df[i].close, df[i].renko_size)]]

\* load_file: "Convert DataFrame to JSON format"
ToJson(df) ==
    [i \in 1..Len(df) |->
        [date |-> df[i].renko_dates,
         open |-> Float(df[i].open, df[i].renko_size),
         high |-> Float(df[i].high, df[i].renko_size),
         low |-> Float(df[i].low, df[i].renko_size),
         close |-> Float(df[i].close, df[i].renko_size)]]

\* a cache that is never reused
CacheFreshNever(cache_age) ==
    FALSE

\* a cache still reused at exactly the TTL
CacheFreshInclusive(cache_age) ==
    cache_age <= TTL

\* if cache_age < 300
CacheFresh(cache_age) ==
    cache_age < TTL

\* an entry that keeps the row count and path it had before
MergedEntry(old, df, ts, original_rows, file_path, cid) ==
    [data |-> df, timestamp |-> ts,
     original_rows |-> IF old = NoEntry THEN original_rows ELSE old.original_rows,
     file_path |-> IF old = NoEntry THEN file_path ELSE old.file_path,
     cid |-> cid]

\* an entry that keeps the timestamp it had before
StaleEntry(old, df, ts, original_rows, file_path, cid) ==
    [data |-> df, timestamp |-> IF old = NoEntry THEN ts ELSE old.timestamp,
     original_rows |-> original_rows, file_path |-> file_path, cid |-> cid]

\* the entry written by renko_cache[cache_key] = {...}
NewEntry(old, df, ts, original_rows, file_path, cid) ==
    [data |-> df, timestamp |-> ts, original_rows |-> original_rows,
     file_path |-> file_path, cid |-> cid]

\* cache details that carry the bricks as well
CacheInfoWithData ==
    [k \in {x \in Keys : renko_cache[x] # NoEntry} |->
        [age_seconds |-> now - renko_cache[k].timestamp,
         cached_at |-> renko_cache[k].timestamp,
         bars_count |-> Len(renko_cache[k].data),
         original_rows |-> renko_cache[k].original_rows,
         file_path |-> renko_cache[k].file_path,
         data |-> renko_cache[k].data]]

\* cache_info: cache_details, the metadata of each cached file
CacheInfo ==
    [k \in {x \in Keys : renko_cache[x] # NoEntry} |->
        [age_seconds |-> now - renko_cache[k].timestamp,
         cached_at |-> renko_cache[k].timestamp,
         bars_count |-> Len(renko_cache[k].data),
         original_rows |-> renko_cache[k].original_rows,
         file_path |-> renko_cache[k].file_path]]

\* load_file starts: server_stats['requests_served'] is read
Receive(t, body) ==
    /\ thr[t].pc = "idle"
    /\ n_requests < MaxRequests
    /\ n_requests' = n_requests + 1
    /\ thr' = [thr EXCEPT ![t] = [IdleThread EXCEPT !.pc = "rs_write",
                                                    !.filename = body,
                                                    !.tmp = server_stats.requests_served]]
    /\ UNCHANGED bvars
    /\ UNCHANGED <<renko_cache, server_stats, now, files, next_cid,
                   n_advances, n_changes>>

\* refreshData() of the page ("Refresh Current"): it calls loadFile(), which
\* posts the same /api/load-file request; refresh records the intent of the
\* client, the server never sees it
ReceiveRefresh(t, body) ==
    /\ thr[t].pc = "idle"
    /\ n_requests < MaxRequests
    /\ n_requests' = n_requests + 1
    /\ thr' = [thr EXCEPT ![t] = [IdleThread EXCEPT !.pc = "rs_write",
                                                    !.filename = body,
                                                    !.refresh = TRUE,
                                                    !.tmp = server_stats.requests_served]]
    /\ UNCHANGED bvars
    /\ UNCHANGED <<renko_cache, server_stats, now, files, next_cid,
                   n_advances, n_changes>>

\* GET /api/cache-info: the whole handler, one step
cache_info(t) ==
    /\ thr[t].pc = "idle"
    /\ n_requests < MaxRequests
    /\ n_requests' = n_requests + 1
    /\ thr' = [thr EXCEPT ![t] =
          [IdleThread EXCEPT !.pc = "done",
                             !.response = [status |-> 200,
                                           cached_files |-> CacheInfo,
                                           total_cached |-> Cardinality(DOMAIN CacheInfo)]]]
    /\ UNCHANGED bvars
    /\ UNCHANGED <<renko_cache, server_stats, now, files, next_cid,
                   n_advances, n_changes>>

\* ... and written back, one higher; an empty filename is answered 400
CountRequest(t) ==
    /\ thr[t].pc = "rs_write"
    /\ server_stats' = [server_stats EXCEPT !.requests_served = thr[t].tmp + 1]
    /\ thr' = [thr EXCEPT ![t] =
          IF thr[t].filename = ""
          THEN [@ EXCEPT !.pc = "done", !.tmp = 0,
                         !.response = [status |-> 400, error |-> "Filename cannot be empty"]]
          ELSE [@ EXCEPT !.pc = "check", !.tmp = 0]]
    /\ UNCHANGED bvars
    /\ UNCHANGED <<renko_cache, now, files, next_cid, n_requests,
                   n_advances, n_changes>>

\* a cache check that removes the entry it finds expired
CheckCacheEvicting(t) ==
    /\ thr[t].pc = "check"
    /\ LET cached_data == renko_cache[thr[t].filename]
           cache_age == now - cached_data.timestamp
           expired == cached_data # NoEntry /\ ~CacheFresh(cache_age)
       IN  /\ thr' = [thr EXCEPT ![t] =
                  IF cached_data = NoEntry
                  THEN [@ EXCEPT !.pc = "fp_read", !.obs = "absent"]
                  ELSE IF CacheFresh(cache_age)
                  THEN [@ EXCEPT !.pc = "respond", !.obs = "present",
                                 !.obs_age = cache_age,
                                 !.renko_df = cached_data.data,
                                 !.original_rows = cached_data.original_rows,
                                 !.cid = cached_data.cid]
                  ELSE [@ EXCEPT !.pc = "fp_read", !.obs = "present",
                                 !.obs_age = cache_age]]
           /\ renko_cache' = IF expired
                             THEN [renko_cache EXCEPT ![thr[t].filename] = NoEntry]
                             ELSE renko_cache
    /\ UNCHANGED bvars
    /\ UNCHANGED <<server_stats, now, files, next_cid,
                   n_requests, n_advances, n_changes>>

\* a cache check that restarts the lifetime of the entry it reuses
CheckCacheTouching(t) ==
    /\ thr[t].pc = "check"
    /\ LET cached_data == renko_cache[thr[t].filename]
           cache_age == now - cached_data.timestamp
           hit == cached_data # NoEntry /\ CacheFresh(cache_age)
       IN  /\ thr' = [thr EXCEPT ![t] =
                  IF cached_data = NoEntry
                  THEN [@ EXCEPT !.pc = "fp_read", !.obs = "absent"]
                  ELSE IF CacheFresh(cache_age)
                  THEN [@ EXCEPT !.pc = "respond", !.obs = "present",
                                 !.obs_age = cache_age,
                                 !.renko_df = cached_data.data,
                                 !.original_rows = cached_data.original_rows,
                                 !.cid = cached_data.cid]
                  ELSE [@ EXCEPT !.pc = "fp_read", !.obs = "present",
                                 !.obs_age = cache_age]]
           /\ renko_cache' = IF hit
                             THEN [renko_cache EXCEPT ![thr[t].filename].timestamp = now]
                             ELSE renko_cache
    /\ UNCHANGED bvars
    /\ UNCHANGED <<server_stats, now, files, next_cid,
                   n_requests, n_advances, n_changes>>

\* "Check cache first"
CheckCache(t) ==
    /\ thr[t].pc = "check"
    /\ LET cached_data == renko_cache[thr[t].filename]
           cache_age == now - cached_data.timestamp
       IN  thr' = [thr EXCEPT ![t] =
              IF cached_data = NoEntry
              THEN [@ EXCEPT !.pc = "fp_read", !.obs = "absent"]
              ELSE IF CacheFresh(cache_age)
              THEN [@ EXCEPT !.pc = "respond", !.obs = "present",
                             !.obs_age = cache_age,
                             !.renko_df = cached_data.data,
                             !.original_rows = cached_data.original_rows,
                             !.cid = cached_data.cid]
              ELSE [@ EXCEPT !.pc = "fp_read", !.obs = "present",
                             !.obs_age = cache_age]]
    /\ UNCHANGED bvars
    /\ UNCHANGED <<renko_cache, server_stats, now, files, next_cid,
                   n_requests, n_advances, n_changes>>

\* process_tick_data starts: server_stats['files_processed'] is read
StartProcess(t) ==
    /\ thr[t].pc = "fp_read"
    /\ thr' = [thr EXCEPT ![t] = [@ EXCEPT !.pc = "fp_write",
                                           !.tmp = server_stats.files_processed,
                                           !.calls = @ + 1]]
    /\ UNCHANGED bvars
    /\ UNCHANGED <<renko_cache, server_stats, now, files, next_cid,
                   n_requests, n_advances, n_changes>>

\* ... and written back, one higher
CountFile(t) ==
    /\ thr[t].pc = "fp_write"
    /\ server_stats' = [server_stats EXCEPT !.files_processed = thr[t].tmp + 1]
    /\ thr' = [thr EXCEPT ![t] = [@ EXCEPT !.pc = "compute", !.tmp = 0]]
    /\ UNCHANGED bvars
    /\ UNCHANGED <<renko_cache, now, files, next_cid, n_requests,
                   n_advances, n_changes>>

\* history: how many bricks the builder made from this file, -1 when
\* process_tick_data raised before reaching the builder
BricksBuilt(file, mpf) ==
    IF file = NoFile \/ ~file.has_price \/ Len(Resample(file.ticks)) = 0 THEN -1
    ELSE IF mpf > 0 THEN Len(MpfRetvals(Resample(file.ticks), mpf).renko_bricks)
    ELSE Len(FallbackRetvals(Resample(file.ticks)).renko_bricks)

\* the file is found, loaded, resampled and turned into bricks
Compute(t, mpf) ==
    /\ thr[t].pc = "compute"
    /\ LET file == files[thr[t].filename]
           usable == file # NoFile /\ file.has_price
       IN  /\ mpf \in (IF usable THEN ServerMpfOutcomes(Resample(file.ticks)) ELSE {0})
           /\ LET out == ProcessOutcome(thr[t].filename, file, mpf)
              IN  thr' = [thr EXCEPT ![t] =
                     IF out.exc = ""
                     THEN [@ EXCEPT !.pc = "store", !.renko_df = out.renko_df,
                                    !.original_rows = out.original_rows,
                                    !.file_path = out.file_path,
                                    !.bricks_built = BricksBuilt(file, mpf),
                                    !.src = <<file, mpf>>]
                     ELSE [@ EXCEPT !.pc = "e1_read", !.exc = out.exc,
                                    !.bricks_built = BricksBuilt(file, mpf),
                                    !.src = <<file, mpf>>]]
    /\ UNCHANGED bvars
    /\ UNCHANGED <<renko_cache, server_stats, now, files, next_cid,
                   n_requests, n_advances, n_changes>>

\* "Cache the result"
Store(t) ==
    /\ thr[t].pc = "store"
    /\ renko_cache' = [renko_cache EXCEPT ![thr[t].filename] =
          NewEntry(@, thr[t].renko_df, now, thr[t].original_rows, thr[t].file_path,
                   next_cid)]
    /\ next_cid' = next_cid + 1
    /\ thr' = [thr EXCEPT ![t] = [@ EXCEPT !.pc = "respond", !.wrote = TRUE,
                                           !.cid = next_cid]]
    /\ UNCHANGED bvars
    /\ UNCHANGED <<server_stats, now, files, n_requests, n_advances, n_changes>>

\* process_tick_data's except: server_stats['errors'] is read
ErrRead1(t) ==
    /\ thr[t].pc = "e1_read"
    /\ thr' = [thr EXCEPT ![t] = [@ EXCEPT !.pc = "e1_write", !.tmp = server_stats.errors]]
    /\ UNCHANGED bvars
    /\ UNCHANGED <<renko_cache, server_stats, now, files, next_cid,
                   n_requests, n_advances, n_changes>>

\* ... written back, and the exception re-raised into load_file, whose
\* FileNotFoundError handler answers 404
ErrWrite1(t) ==
    /\ thr[t].pc = "e1_write"
    /\ server_stats' = [server_stats EXCEPT !.errors = thr[t].tmp + 1]
    /\ thr' = [thr EXCEPT ![t] =
          IF thr[t].exc = "FileNotFoundError"
          THEN [@ EXCEPT !.pc = "done", !.tmp = 0,
                         !.response = [status |-> 404, error |-> "File not found"]]
          ELSE [@ EXCEPT !.pc = "e2_read", !.tmp = 0]]
    /\ UNCHANGED bvars
    /\ UNCHANGED <<renko_cache, now, files, next_cid, n_requests,
                   n_advances, n_changes>>

\* load_file's "except Exception": server_stats['errors'] is read
ErrRead2(t) ==
    /\ thr[t].pc = "e2_read"
    /\ thr' = [thr EXCEPT ![t] = [@ EXCEPT !.pc = "e2_write", !.tmp = server_stats.errors]]
    /\ UNCHANGED bvars
    /\ UNCHANGED <<renko_cache, server_stats, now, files, next_cid,
                   n_requests, n_advances, n_changes>>

\* ... written back, and the 500 response carries str(e)
ErrWrite2(t) ==
    /\ thr[t].pc = "e2_write"
    /\ server_stats' = [server_stats EXCEPT !.errors = thr[t].tmp + 1]
    /\ thr' = [thr EXCEPT ![t] = [@ EXCEPT !.pc = "done", !.tmp = 0,
                                           !.response = [status |-> 500, error |-> thr[t].exc]]]
    /\ UNCHANGED bvars
    /\ UNCHANGED <<renko_cache, now, files, next_cid, n_requests,
                   n_advances, n_changes>>

\* a response whose bar count is taken from the row count
RespondCountsRows(t) ==
    /\ thr[t].pc = "respond"
    /\ LET response == [status |-> 200,
                        renko |-> ToJson(thr[t].renko_df),
                        filename |-> thr[t].filename,
                        original_rows |-> thr[t].original_rows,
                        renko_bars |-> thr[t].original_rows]
       IN  thr' = [thr EXCEPT ![t] = [@ EXCEPT !.pc = "done", !.response = response]]
    /\ UNCHANGED bvars
    /\ UNCHANGED <<renko_cache, server_stats, now, files, next_cid, n_requests,
                   n_advances, n_changes>>

\* the success response
Respond(t) ==
    /\ thr[t].pc = "respond"
    /\ LET response == [status |-> 200,
                        renko |-> ToJson(thr[t].renko_df),
                        filename |-> thr[t].filename,
                        original_rows |-> thr[t].original_rows,
                        renko_bars |-> Len(ToJson(thr[t].renko_df))]
       IN  thr' = [thr EXCEPT ![t] = [@ EXCEPT !.pc = "done", !.response = response]]
    /\ UNCHANGED bvars
    /\ UNCHANGED <<renko_cache, server_stats, now, files, next_cid, n_requests,
                   n_advances, n_changes>>

\* the response is sent; the thread is free for the next request
Return(t) ==
    /\ thr[t].pc = "done"
    /\ thr' = [thr EXCEPT ![t] = IdleThread]
    /\ UNCHANGED bvars
    /\ UNCHANGED <<renko_cache, server_stats, now, files, next_cid,
                   n_requests, n_advances, n_changes>>

\* Time passes.  datetime.now() is read by the cache check and by the store
\* only, so the clock moves when a thread is about to take one of these steps:
\* time that passes at any other moment has the same effect as the same time
\* passing just before the next reading.
Advance(d) ==
    /\ n_advances < MaxAdvances
    /\ \E t \in Threads : thr[t].pc \in {"check", "store"}
    /\ n_advances' = n_advances + 1
    /\ now' = now + d
    /\ UNCHANGED bvars
    /\ UNCHANGED <<renko_cache, server_stats, files, thr, next_cid,
                   n_requests, n_changes>>

\* Time passes while no request is being handled: cache_info, which may come
\* next, reads datetime.now() for age_seconds.
Wait(d) ==
    /\ n_advances < MaxAdvances
    /\ \A t \in Threads : thr[t].pc = "idle"
    /\ n_advances' = n_advances + 1
    /\ now' = now + d
    /\ UNCHANGED bvars
    /\ UNCHANGED <<renko_cache, server_stats, files, thr, next_cid,
                   n_requests, n_changes>>

\* A tick file is added, replaced or removed in data/tick/.  The only step
\* that reads the folder is Compute, so a change is let in only when a thread
\* is about to read that file: a change at any earlier moment has the same
\* effect as the same change made just before the next read.
ChangeFile(k, f) ==
    /\ n_changes < MaxChanges
    /\ \E t \in Threads : thr[t].pc = "compute" /\ thr[t].filename = k
    /\ f # files[k]
    /\ n_changes' = n_changes + 1
    /\ files' = [files EXCEPT ![k] = f]
    /\ UNCHANGED bvars
    /\ UNCHANGED <<renko_cache, server_stats, now, thr, next_cid,
                   n_requests, n_advances>>

BuilderIdle ==
    /\ variant = "interactive"
    /\ tick_file_exists = TRUE
    /\ tick_df = <<>>
    /\ strategy_log = <<>>
    /\ ohcl_df = <<>>
    /\ bpc = "off"
    /\ brick_size = NaNSize
    /\ last_brick_price = 0
    /\ row_i = 0
    /\ renko_bricks = <<>>
    /\ renko_dates = <<>>
    /\ retvals = NoRetvals
    /\ renko_df = <<>>
    /\ row_log = <<>>

ServerIdle ==
    /\ renko_cache = [k \in Keys |-> NoEntry]
    /\ server_stats = [requests_served |-> 0, files_processed |-> 0, errors |-> 0]
    /\ now = 0
    /\ files = [k \in Keys |-> NoFile]
    /\ thr = [t \in Threads |-> IdleThread]
    /\ next_cid = 1
    /\ n_requests = 0
    /\ n_advances = 0
    /\ n_changes = 0

Init ==
    InitServer /\ BuilderIdle

Next ==
    \/ \E t \in Threads, body \in Keys \cup {""} : Receive(t, body)
    \/ \E t \in Threads : CountRequest(t)
    \/ \E t \in Threads : CheckCache(t)
    \/ \E t \in Threads : StartProcess(t)
    \/ \E t \in Threads : CountFile(t)
    \/ \E t \in Threads, mpf \in 0..MaxAtr : Compute(t, mpf)
    \/ \E t \in Threads : Store(t)
    \/ \E t \in Threads : ErrRead1(t)
    \/ \E t \in Threads : ErrWrite1(t)
    \/ \E t \in Threads : ErrRead2(t)
    \/ \E t \in Threads : ErrWrite2(t)
    \/ \E t \in Threads : Respond(t)
    \/ \E t \in Threads : Return(t)
    \/ \E d \in Jumps : Advance(d)
    \/ \E k \in Keys, f \in FileStates : ChangeFile(k, f)

Spec ==
    Init /\ [][Next]_vars

\* ---------------------------------- the same server, one request at a time
FirstThread ==
    "t1"

InitSerial ==
    /\ renko_cache = [k \in Keys |-> NoEntry]
    /\ server_stats = [requests_served |-> 0, files_processed |-> 0, errors |-> 0]
    /\ now = 0
    /\ files \in [Keys -> AllFileStates]
    /\ thr = [t \in Threads |-> IdleThread]
    /\ next_cid = 1
    /\ n_requests = 0
    /\ n_advances = 0
    /\ n_changes = 0
    /\ BuilderIdle

NextSerial ==
    \/ \E body \in Keys \cup {""} : Receive(FirstThread, body)
    \/ \E body \in Keys : ReceiveRefresh(FirstThread, body)
    \/ cache_info(FirstThread)
    \/ CountRequest(FirstThread)
    \/ CheckCache(FirstThread)
    \/ StartProcess(FirstThread)
    \/ CountFile(FirstThread)
    \/ \E mpf \in 0..MaxAtr : Compute(FirstThread, mpf)
    \/ Store(FirstThread)
    \/ ErrRead1(FirstThread)
    \/ ErrWrite1(FirstThread)
    \/ ErrRead2(FirstThread)
    \/ ErrWrite2(FirstThread)
    \/ Respond(FirstThread)
    \/ Return(FirstThread)
    \/ \E d \in Jumps : Advance(d)
    \/ \E d \in Jumps : Wait(d)
    \/ \E k \in Keys, f \in AllFileStates : ChangeFile(k, f)

SpecSerial ==
    InitSerial /\ [][NextSerial]_vars

InitBuilder ==
    /\ variant \in Variants
    /\ tick_file_exists \in BOOLEAN
    /\ (variant = "interactive" => tick_file_exists)
    /\ ohcl_df \in BarInputs
    /\ tick_df = <<>>
    /\ strategy_log = <<>>
    /\ bpc = "plot"
    /\ brick_size = NaNSize
    /\ last_brick_price = 0
    /\ row_i = 0
    /\ renko_bricks = <<>>
    /\ renko_dates = <<>>
    /\ retvals = NoRetvals
    /\ renko_df = <<>>
    /\ row_log = <<>>
    /\ ServerIdle

\* mpf.plot(..., return_calculated_values=retvals) succeeds
MpfPlot(s) ==
    /\ variant = "interactive"
    /\ bpc = "plot"
    /\ s \in MpfOutcomes(ohcl_df) \ {0}
    /\ retvals' = MpfRetvals(ohcl_df, s)
    /\ bpc' = "convert"
    /\ strategy_log' = Append(strategy_log, "atr")
    /\ UNCHANGED svars
    /\ UNCHANGED <<variant, tick_file_exists, tick_df, ohcl_df, brick_size, last_brick_price,
                   row_i, renko_bricks, renko_dates, renko_df, row_log>>

\* mpf.plot raises: the except branch starts the fallback
MpfRaise ==
    /\ variant = "interactive"
    /\ bpc = "plot"
    /\ brick_size' = StdHalf(ohcl_df)
    /\ last_brick_price' = FallbackStart(ohcl_df).last_brick_price
    /\ renko_bricks' = <<>>
    /\ renko_dates' = <<>>
    /\ row_i' = 1
    /\ bpc' = "loop"
    /\ strategy_log' = strategy_log \o <<"atr", "statistical">>
    /\ UNCHANGED svars
    /\ UNCHANGED <<variant, tick_file_exists, tick_df, ohcl_df, retvals, renko_df, row_log>>

\* one row of the fallback loop
FallbackIter ==
    /\ bpc = "loop"
    /\ row_i <= Len(ohcl_df)
    /\ LET st == [last_brick_price |-> last_brick_price,
                  renko_bricks |-> renko_bricks,
                  renko_dates |-> renko_dates]
           nx == FallbackRow(st, ohcl_df[row_i], brick_size)
       IN  /\ last_brick_price' = nx.last_brick_price
           /\ renko_bricks' = nx.renko_bricks
           /\ renko_dates' = nx.renko_dates
           /\ row_log' = Append(row_log,
                  [close |-> ohcl_df[row_i].close,
                   last |-> last_brick_price,
                   emitted |-> SubSeq(nx.renko_bricks, Len(renko_bricks) + 1,
                                      Len(nx.renko_bricks))])
    /\ row_i' = row_i + 1
    /\ UNCHANGED strategy_log
    /\ UNCHANGED svars
    /\ UNCHANGED <<variant, tick_file_exists, tick_df, ohcl_df, bpc, brick_size, retvals, renko_df>>

\* retvals = {...} after the loop
FallbackEnd ==
    /\ bpc = "loop"
    /\ row_i > Len(ohcl_df)
    /\ retvals' = [renko_bricks |-> renko_bricks,
                   renko_dates |-> renko_dates,
                   renko_size |-> brick_size]
    /\ bpc' = "convert"
    /\ UNCHANGED strategy_log
    /\ UNCHANGED svars
    /\ UNCHANGED <<variant, tick_file_exists, tick_df, ohcl_df, brick_size, last_brick_price,
                   row_i, renko_bricks, renko_dates, renko_df, row_log>>

\* a builder that starts over when no brick was formed
NoRenkoDataRetried ==
    /\ bpc = "convert"
    /\ Len(retvals.renko_bricks) = 0
    /\ bpc' = "plot"
    /\ row_i' = 0
    /\ row_log' = <<>>
    /\ UNCHANGED svars
    /\ UNCHANGED <<variant, tick_file_exists, tick_df, strategy_log, ohcl_df, brick_size,
                   last_brick_price, renko_bricks, renko_dates, retvals, renko_df>>

\* if len(renko_df) == 0: raise ValueError("No Renko data generated")
NoRenkoData ==
    /\ bpc = "convert"
    /\ Len(retvals.renko_bricks) = 0
    /\ bpc' = "raised"
    /\ UNCHANGED strategy_log
    /\ UNCHANGED svars
    /\ UNCHANGED <<variant, tick_file_exists, tick_df, ohcl_df, brick_size, last_brick_price,
                   row_i, renko_bricks, renko_dates, retvals, renko_df, row_log>>

Synthesize ==
    /\ bpc = "convert"
    /\ Len(retvals.renko_bricks) > 0
    /\ renko_df' = SynthOHLC(retvals)
    /\ bpc' = "done"
    /\ UNCHANGED strategy_log
    /\ UNCHANGED svars
    /\ UNCHANGED <<variant, tick_file_exists, tick_df, ohcl_df, brick_size, last_brick_price,
                   row_i, renko_bricks, renko_dates, retvals, row_log>>

\* main.py generate_renko_data
MainGenerate ==
    /\ variant = "main"
    /\ bpc = "plot"
    /\ retvals' = MainRetvals(tick_file_exists, ohcl_df)
    /\ renko_df' = SynthMain(MainRetvals(tick_file_exists, ohcl_df))
    /\ bpc' = "done"
    /\ UNCHANGED strategy_log
    /\ UNCHANGED svars
    /\ UNCHANGED <<variant, tick_file_exists, tick_df, ohcl_df, brick_size, last_brick_price,
                   row_i, renko_bricks, renko_dates, row_log>>

\* part_000 generate_renko_data, run as a script
AppGenerate(mpf, rnd) ==
    /\ variant = "app"
    /\ bpc = "plot"
    /\ mpf \in MpfOutcomes(ohcl_df)
    /\ renko_df' = AppGenerateData(tick_file_exists, ohcl_df, mpf, rnd)
    /\ bpc' = "done"
    /\ UNCHANGED strategy_log
    /\ UNCHANGED svars
    /\ UNCHANGED <<variant, tick_file_exists, tick_df, ohcl_df, brick_size, last_brick_price,
                   row_i, renko_bricks, renko_dates, retvals, row_log>>

NextBuilder ==
    \/ \E s \in 1..MaxAtr : MpfPlot(s)
    \/ MpfRaise
    \/ FallbackIter
    \/ FallbackEnd
    \/ NoRenkoData
    \/ Synthesize
    \/ MainGenerate
    \/ \E mpf \in 0..MaxAtr, rnd \in NpDraws : AppGenerate(mpf, rnd)

SpecBuilder ==
    InitBuilder /\ [][NextBuilder]_vars

\* ------------------------------ the single-dataset server (part_000)
\* In this server renko_df is the global of that name, bpc tells what it
\* holds ("boot": the script has not generated its initial data yet, "none":
\* renko_df is None, "held": a DataFrame), and variant tells how the module
\* was started.
AppVariants ==
    {"app", "app_wsgi"}

\* the bars of data/tick/SPY_2025_W21.parquet
AppBars ==
    {BarsOfCloses(<<100, 100>>), BarsOfCloses(<<100, 103>>), BarsOfCloses(ScenarioC)}

\* the values np.random.random() can give in this run
AppDraws ==
    IF variant = "app" THEN NpDraws ELSE {0}

\* the variables no handler of part_000 writes
appRest ==
    <<variant, ohcl_df, tick_df, strategy_log, brick_size, last_brick_price, row_i,
      renko_bricks, renko_dates, retvals, row_log, renko_cache, files, next_cid>>

InitApp ==
    /\ variant \in AppVariants
    /\ tick_file_exists \in BOOLEAN
    /\ ohcl_df \in AppBars
    /\ bpc = (IF variant = "app" THEN "boot" ELSE "none")
    /\ renko_df = <<>>
    /\ server_stats = [requests_served |-> 0, data_refreshes |-> 0, errors |-> 0]
    /\ tick_df = <<>>
    /\ strategy_log = <<>>
    /\ brick_size = NaNSize
    /\ last_brick_price = 0
    /\ row_i = 0
    /\ renko_bricks = <<>>
    /\ renko_dates = <<>>
    /\ retvals = NoRetvals
    /\ row_log = <<>>
    /\ renko_cache = [k \in Keys |-> NoEntry]
    /\ now = 0
    /\ files = [k \in Keys |-> NoFile]
    /\ thr = [t \in Threads |-> IdleThread]
    /\ next_cid = 1
    /\ n_requests = 0
    /\ n_advances = 0
    /\ n_changes = 0

\* server_stats after generate_renko_data: data_refreshes on the way out of
\* the try block, errors in the except
AppCount(ok) ==
    IF ok THEN [server_stats EXCEPT !.data_refreshes = @ + 1]
    ELSE [server_stats EXCEPT !.errors = @ + 1]

\* __main__: "Generate initial data", before the server accepts requests
AppStartup(mpf, rnd) ==
    /\ bpc = "boot"
    /\ mpf \in (IF tick_file_exists THEN ServerMpfOutcomes(ohcl_df) ELSE {0})
    /\ rnd \in AppDraws
    /\ renko_df' = AppGenerateData(tick_file_exists, ohcl_df, mpf, rnd)
    /\ server_stats' = AppCount(AppGenerateOk(tick_file_exists, ohcl_df, mpf, rnd))
    /\ bpc' = "held"
    /\ UNCHANGED appRest
    /\ UNCHANGED <<tick_file_exists, now, thr, n_requests, n_advances, n_changes>>

\* a data request that generates whether or not a result is held
GetRenkoDataAlwaysFresh(t) ==
    /\ bpc # "boot"
    /\ thr[t].pc = "idle"
    /\ n_requests < MaxRequests
    /\ n_requests' = n_requests + 1
    /\ server_stats' = [server_stats EXCEPT !.requests_served = @ + 1]
    /\ thr' = [thr EXCEPT ![t] =
          [IdleThread EXCEPT !.pc = "a_generate",
                             !.obs = IF bpc = "none" THEN "none" ELSE "held"]]
    /\ UNCHANGED appRest
    /\ UNCHANGED <<tick_file_exists, bpc, renko_df, now, n_advances, n_changes>>

\* GET /api/renko-data arrives: requests_served += 1; if renko_df is None
get_renko_data(t) ==
    /\ bpc # "boot"
    /\ thr[t].pc = "idle"
    /\ n_requests < MaxRequests
    /\ n_requests' = n_requests + 1
    /\ server_stats' = [server_stats EXCEPT !.requests_served = @ + 1]
    /\ thr' = [thr EXCEPT ![t] =
          IF bpc = "none"
          THEN [IdleThread EXCEPT !.pc = "a_generate", !.obs = "none"]
          ELSE [IdleThread EXCEPT !.pc = "a_convert", !.obs = "held"]]
    /\ UNCHANGED appRest
    /\ UNCHANGED <<tick_file_exists, bpc, renko_df, now, n_advances, n_changes>>

\* POST /api/refresh arrives
force_refresh(t) ==
    /\ bpc # "boot"
    /\ thr[t].pc = "idle"
    /\ n_requests < MaxRequests
    /\ n_requests' = n_requests + 1
    /\ thr' = [thr EXCEPT ![t] =
          [IdleThread EXCEPT !.pc = "a_generate", !.refresh = TRUE,
                             !.obs = IF bpc = "none" THEN "none" ELSE "held"]]
    /\ UNCHANGED appRest
    /\ UNCHANGED <<tick_file_exists, bpc, renko_df, server_stats, now, n_advances,
                   n_changes>>

\* generate_renko_data runs for the request: on success the global renko_df
\* is already bound to the new frame (global renko_df, line 571); the frame
\* it returns is kept in the thread
generate_renko_data(t, mpf, rnd) ==
    /\ thr[t].pc = "a_generate"
    /\ mpf \in (IF tick_file_exists THEN ServerMpfOutcomes(ohcl_df) ELSE {0})
    /\ rnd \in AppDraws
    /\ LET ok == AppGenerateOk(tick_file_exists, ohcl_df, mpf, rnd)
           df == AppGenerateData(tick_file_exists, ohcl_df, mpf, rnd)
       IN  /\ renko_df' = (IF ok THEN df ELSE renko_df)
           /\ bpc' = (IF ok THEN "held" ELSE bpc)
           /\ server_stats' = AppCount(ok)
           /\ thr' = [thr EXCEPT ![t] =
                  [@ EXCEPT !.pc = "a_assign", !.renko_df = df, !.calls = @ + 1,
                            !.exc = IF ok THEN ""
                                    ELSE IF tick_file_exists THEN "ValueError"
                                    ELSE "NameError"]]
    /\ UNCHANGED appRest
    /\ UNCHANGED <<tick_file_exists, now, n_requests, n_advances, n_changes>>

\* renko_df = generate_renko_data(): the handler binds the returned frame
AppAssign(t) ==
    /\ thr[t].pc = "a_assign"
    /\ renko_df' = thr[t].renko_df
    /\ bpc' = "held"
    /\ thr' = [thr EXCEPT ![t] =
          [@ EXCEPT !.pc = IF thr[t].refresh THEN "a_refreshed" ELSE "a_convert"]]
    /\ UNCHANGED appRest
    /\ UNCHANGED <<tick_file_exists, server_stats, now, n_requests, n_advances,
                   n_changes>>

\* get_renko_data: "Convert DataFrame to JSON", the same statements as in
\* load_file
ToJsonApp(df) ==
    [i \in 1..Len(df) |->
        [date |-> df[i].renko_dates,
         open |-> Float(df[i].open, df[i].renko_size),
         high |-> Float(df[i].high, df[i].renko_size),
         low |-> Float(df[i].low, df[i].renko_size),
         close |-> Float(df[i].close, df[i].renko_size)]]

\* get_renko_data answers with the rows of the global renko_df
AppRespond(t) ==
    /\ thr[t].pc = "a_convert"
    /\ thr' = [thr EXCEPT ![t] =
          [@ EXCEPT !.pc = "done",
                    !.response = [status |-> 200,
                                  renko |-> ToJsonApp(renko_df),
                                  data_points |-> Len(ToJsonApp(renko_df))]]]
    /\ UNCHANGED appRest
    /\ UNCHANGED <<tick_file_exists, bpc, renko_df, server_stats, now, n_requests,
                   n_advances, n_changes>>

\* force_refresh answers {'status': 'success', ...}
AppRefreshed(t) ==
    /\ thr[t].pc = "a_refreshed"
    /\ thr' = [thr EXCEPT ![t] =
          [@ EXCEPT !.pc = "done",
                    !.response = [status |-> 200, message |-> "Data refreshed",
                                  data_points |-> Len(renko_df)]]]
    /\ UNCHANGED appRest
    /\ UNCHANGED <<tick_file_exists, bpc, renko_df, server_stats, now, n_requests,
                   n_advances, n_changes>>

\* The tick file appears or disappears; only generate_renko_data looks for it.
AppChangeFile ==
    /\ n_changes < MaxChanges
    /\ \E t \in Threads : thr[t].pc = "a_generate"
    /\ n_changes' = n_changes + 1
    /\ tick_file_exists' = ~tick_file_exists
    /\ UNCHANGED appRest
    /\ UNCHANGED <<bpc, renko_df, server_stats, now, thr, n_requests, n_advances>>

NextApp ==
    \/ \E mpf \in 0..MaxAtr, rnd \in NpDraws \cup {0} : AppStartup(mpf, rnd)
    \/ \E t \in Threads : get_renko_data(t)
    \/ \E t \in Threads : force_refresh(t)
    \/ \E t \in Threads, mpf \in 0..MaxAtr, rnd \in NpDraws \cup {0} :
          generate_renko_data(t, mpf, rnd)
    \/ \E t \in Threads : AppAssign(t)
    \/ \E t \in Threads : AppRespond(t)
    \/ \E t \in Threads : AppRefreshed(t)
    \/ \E t \in Threads : Return(t)
    \/ \E d \in Jumps : Wait(d)
    \/ AppChangeFile

SpecApp ==
    InitApp /\ [][NextApp]_vars

\* ----------------------- process_tick_data from the loaded ticks to the bricks
\* tick times, in seconds after midnight; 0, 60 and 120 are minute boundaries
TickTimes ==
    {0, 30, 60, 61, 90, 120}

\* tick prices, in half points: 200 is 100.0 and 201 is 100.5
TickPrices ==
    {200, 201, 206}

\* the tick sequences of a file: up to MaxTicks ticks in time order
TickInputs ==
    UNION {{t \in [1..n -> {Tick(x, p) : x \in TickTimes, p \in TickPrices}] :
               \A i \in 1..(n - 1) : t[i].timestamp < t[i + 1].timestamp} :
           n \in 0..MaxTicks}

InitPipeline ==
    /\ variant = "interactive"
    /\ tick_file_exists = TRUE
    /\ tick_df \in TickInputs
    /\ strategy_log = <<>>
    /\ ohcl_df = <<>>
    /\ bpc = "resample"
    /\ brick_size = NaNSize
    /\ last_brick_price = 0
    /\ row_i = 0
    /\ renko_bricks = <<>>
    /\ renko_dates = <<>>
    /\ retvals = NoRetvals
    /\ renko_df = <<>>
    /\ row_log = <<>>
    /\ ServerIdle

\* ohcl_df = tick_df.resample('1min', closed='right', label='right').agg(...).dropna()
ResampleTicks ==
    /\ bpc = "resample"
    /\ ohcl_df' = Resample(tick_df)
    /\ bpc' = "resampled"
    /\ UNCHANGED svars
    /\ UNCHANGED <<variant, tick_file_exists, tick_df, strategy_log, brick_size,
                   last_brick_price, row_i, renko_bricks, renko_dates, retvals,
                   renko_df, row_log>>

\* if len(ohcl_df) == 0: raise ValueError("No data remained after resampling to OHLC")
NoOhlcData ==
    /\ bpc = "resampled"
    /\ Len(ohcl_df) = 0
    /\ bpc' = "raised"
    /\ UNCHANGED svars
    /\ UNCHANGED <<variant, tick_file_exists, tick_df, strategy_log, ohcl_df, brick_size,
                   last_brick_price, row_i, renko_bricks, renko_dates, retvals,
                   renko_df, row_log>>

\* the bars are saved and the Renko calculation starts: retvals = {}
StartRenko ==
    /\ bpc = "resampled"
    /\ Len(ohcl_df) > 0
    /\ bpc' = "plot"
    /\ UNCHANGED svars
    /\ UNCHANGED <<variant, tick_file_exists, tick_df, strategy_log, ohcl_df, brick_size,
                   last_brick_price, row_i, renko_bricks, renko_dates, retvals,
                   renko_df, row_log>>

NextPipeline ==
    \/ ResampleTicks
    \/ NoOhlcData
    \/ StartRenko
    \/ \E s \in 1..MaxAtr : MpfPlot(s)
    \/ MpfRaise
    \/ FallbackIter
    \/ FallbackEnd
    \/ NoRenkoData
    \/ Synthesize

SpecPipeline ==
    InitPipeline /\ [][NextPipeline]_vars

\* ------------------------ process_tick_data from the file's rows to the bars
\* row times: 60 is a minute boundary, all four lie in two buckets
RowTimes ==
    {30, 60, 61, 90}

\* what a cell of the size column may hold
RowSizes ==
    {MissingSize, 2}

\* a row of a file that has no size column
RawRow(t, p) ==
    [timestamp |-> t, price |-> p]

\* the rows of a file, in file order (any order of their timestamps): with a
\* size column or without one
RowInputs ==
    UNION {{r \in [1..n -> {RawRow(x, p) : x \in RowTimes, p \in TickPrices}
                          \cup {[timestamp |-> x, price |-> p, size |-> z] :
                                   x \in RowTimes, p \in TickPrices, z \in RowSizes}] :
               /\ \A i \in 1..n, j \in 1..n : i # j => r[i].timestamp # r[j].timestamp
               /\ \A i \in 1..n, j \in 1..n : DOMAIN r[i] = DOMAIN r[j]} :
           n \in 0..MaxTicks}

InitResample ==
    /\ variant = "interactive"
    /\ tick_file_exists = TRUE
    /\ tick_df \in RowInputs
    /\ strategy_log = <<>>
    /\ ohcl_df = <<>>
    /\ bpc = "loaded"
    /\ brick_size = NaNSize
    /\ last_brick_price = 0
    /\ row_i = 0
    /\ renko_bricks = <<>>
    /\ renko_dates = <<>>
    /\ retvals = NoRetvals
    /\ renko_df = <<>>
    /\ row_log = <<>>
    /\ ServerIdle

\* if 'size' not in tick_df.columns: tick_df['size'] = 1
AddSizeColumn ==
    /\ bpc = "loaded"
    /\ tick_df' = [i \in 1..Len(tick_df) |->
                      IF "size" \in DOMAIN tick_df[i] THEN tick_df[i]
                      ELSE Tick(tick_df[i].timestamp, tick_df[i].price)]
    /\ bpc' = "resample"
    /\ UNCHANGED svars
    /\ UNCHANGED <<variant, tick_file_exists, strategy_log, ohcl_df, brick_size,
                   last_brick_price, row_i, renko_bricks, renko_dates, retvals,
                   renko_df, row_log>>

NextResample ==
    \/ AddSizeColumn
    \/ ResampleTicks
    \/ NoOhlcData

SpecResample ==
    InitResample /\ [][NextResample]_vars

\* the stepwise loop and the operator used by the server agree
FallbackAgrees ==
    (bpc = "convert" /\ row_i > 0) => retvals = FallbackRetvals(ohcl_df)

\* ------------------------------------------------- claims on the brick builder
Built ==
    bpc = "done"

\* |x - y| = size
DiffIsSize(x, y, sz) ==
    EqN(x, PlusTenths(y, 10), sz) \/ EqN(x, PlusTenths(y, -10), sz)

\* k = floor(|delta| / size), for a positive size
IsFloorOf(k, delta, sz) ==
    /\ k * k * sz.n <= delta * delta * sz.d
    /\ delta * delta * sz.d < (k + 1) * (k + 1) * sz.n

\* C5 (as claimed): in the Renko Builder every brick a bar emits lies one brick
\* size beyond the last brick value, in the direction of delta (the j-th brick
\* of a bar at last + sign(delta) * j * size), and a bar emits
\* floor(|delta| / size) bricks.
C5_WalkAsClaimed ==
    \A i \in DOMAIN row_log :
        LET e == row_log[i]
            delta == e.close - e.last
        IN  /\ \A j \in DOMAIN e.emitted :
                  EqN(e.emitted[j], [a |-> e.last, b |-> 10 * j * Sign(delta)], brick_size)
            /\ SizePositive(brick_size) => IsFloorOf(Len(e.emitted), delta, brick_size)

\* C6: the fallback loop emits no brick for a row whose close is less than one
\* brick size away from the last brick price.
C6_MonotoneThreshold ==
    \A i \in DOMAIN row_log :
        LtSize(row_log[i].close - row_log[i].last, brick_size) => row_log[i].emitted = <<>>

\* C6 witness: the loop has finished on a series in which a row moved, by less
\* than the brick size, and emitted nothing, while another row emitted a brick.
C6_Witness ==
    /\ bpc = "convert"
    /\ \E i \in DOMAIN row_log :
          /\ row_log[i].close # row_log[i].last
          /\ LtSize(row_log[i].close - row_log[i].last, brick_size)
          /\ row_log[i].emitted = <<>>
    /\ \E i \in DOMAIN row_log : row_log[i].emitted # <<>>

\* C7 (as claimed): in every brick sequence built by process_tick_data or by
\* part_000's generate_renko_data, for every brick after the first, open is the
\* previous brick's value and |value - open| is the brick's recorded size.
C7_BrickInvariantAsClaimed ==
    (Built /\ variant \in {"interactive", "app"}) =>
        \A i \in 2..Len(renko_df) :
            /\ EqN(renko_df[i].open, renko_df[i - 1].renko_bricks, renko_df[i].renko_size)
            /\ DiffIsSize(renko_df[i].renko_bricks, renko_df[i].open, renko_df[i].renko_size)

\* C8: the first brick of a non-empty brick sequence has open = value - size,
\* and every brick has close = value.
C8_FirstOpenAndClose ==
    (Built /\ Len(renko_df) > 0) =>
        /\ EqN(renko_df[1].open, PlusTenths(renko_df[1].renko_bricks, -10),
               renko_df[1].renko_size)
        /\ \A i \in 1..Len(renko_df) :
              EqN(renko_df[i].close, renko_df[i].renko_bricks, renko_df[i].renko_size)

\* C8 witness: process_tick_data built at least two bricks and the first one is
\* a down brick (its value lies below the first bar's close).
C8_Witness ==
    /\ Built
    /\ variant = "interactive"
    /\ Len(renko_df) >= 2
    /\ renko_df[1].renko_bricks.a < ohcl_df[1].close
    /\ SizePositive(renko_df[1].renko_size)

\* C9 (as claimed): every brick has high = max(open, close) + 0.1 * size and
\* low = min(open, close) - 0.1 * size, low <= open, close <= high, and
\* high # low.
C9_PaddingAsClaimed ==
    Built =>
        \A i \in 1..Len(renko_df) :
            LET r == renko_df[i]
                sz == r.renko_size
            IN  /\ EqN(r.high, PlusTenths(MaxN(r.open, r.close, sz), 1), sz)
                /\ EqN(r.low, PlusTenths(MinN(r.open, r.close, sz), -1), sz)
                /\ LeqN(r.low, r.open, sz) /\ LeqN(r.open, r.high, sz)
                /\ LeqN(r.low, r.close, sz) /\ LeqN(r.close, r.high, sz)
                /\ ~EqN(r.high, r.low, sz)

\* ----------------------------------------- claims on the file-selection server
\* the request of thread t found an entry and was answered from it
Reused(t) ==
    /\ thr[t].obs = "present"
    /\ thr[t].calls = 0
    /\ thr[t].pc \in {"respond", "done"}

\* the request of thread t found an entry whose age had reached the TTL
FoundExpired(t) ==
    /\ thr[t].obs = "present"
    /\ thr[t].obs_age >= TTL

\* data, original_rows and file_path (when has_path) all come from one
\* successful computation of process_tick_data for key k.  The row count is
\* compared first, so that only the files it fits are computed.
OneComputation(k, data, original_rows, has_path, file_path) ==
    \E f \in TickFiles :
        /\ original_rows = Len(f.ticks)
        /\ \E mpf \in {0, MaxAtr} :
              LET out == ProcessOutcome(k, f, mpf)
              IN  /\ out.exc = ""
                  /\ data = out.renko_df
                  /\ original_rows = out.original_rows
                  /\ has_path => file_path = out.file_path

\* C1: a load request that checks the cache less than TTL seconds after a
\* successful computation for its key was stored is served from renko_cache:
\* it does not call process_tick_data (no request calls it more than once),
\* and its response is identical to the response of the request that computed
\* the entry.
C1_IdempotentCache ==
    \A t \in Threads :
        /\ thr[t].calls <= 1
        /\ (thr[t].obs = "present" /\ thr[t].obs_age < TTL) =>
              /\ thr[t].pc \in {"respond", "done"}
              /\ thr[t].calls = 0
              /\ ~thr[t].wrote
              /\ thr[t].pc = "done" => thr[t].response.status = 200
              /\ \A u \in Threads \ {t} :
                    (/\ thr[t].pc = "done" /\ thr[u].pc = "done"
                     /\ thr[u].wrote /\ thr[u].cid = thr[t].cid)
                    => thr[t].response = thr[u].response

\* C1 witness: one request computed and stored the bricks, a second one came
\* 150 s later and was answered from the cache with the same response; two
\* requests were served and process_tick_data ran once.
C1_Witness ==
    \E t \in Threads, u \in Threads :
        /\ t # u
        /\ thr[t].pc = "done" /\ thr[u].pc = "done"
        /\ thr[u].wrote /\ thr[u].calls = 1
        /\ Reused(t) /\ thr[t].obs_age > 0 /\ thr[t].obs_age < TTL
        /\ thr[t].cid = thr[u].cid
        /\ thr[t].response = thr[u].response
        /\ thr[t].response.renko_bars > 0
        /\ server_stats.requests_served = 2
        /\ server_stats.files_processed = 1

\* C2 (as claimed): an entry is reused only while its age is below TTL, and a
\* request that finds the entry at age >= TTL runs the computation again and
\* replaces the entry.
C2_ExpiryAsClaimed ==
    \A t \in Threads :
        /\ Reused(t) => thr[t].obs_age < TTL
        /\ (FoundExpired(t) /\ thr[t].pc = "done") =>
              /\ thr[t].calls = 1
              /\ thr[t].wrote
              /\ renko_cache[thr[t].filename].cid >= thr[t].cid

C2_ExpiryState ==
    \A t \in Threads :
        /\ Reused(t) => thr[t].obs_age < TTL
        /\ FoundExpired(t) => (thr[t].pc = "fp_read" \/ thr[t].calls = 1)
        /\ (FoundExpired(t) /\ thr[t].pc = "done") =>
              IF thr[t].response.status = 200
              THEN /\ thr[t].wrote
                   /\ renko_cache[thr[t].filename].cid >= thr[t].cid
              ELSE ~thr[t].wrote

C2_ExpiryStore ==
    \A t \in Threads :
        (thr[t].pc = "store" /\ thr'[t].pc = "respond") =>
            /\ renko_cache'[thr[t].filename].cid = thr'[t].cid
            /\ renko_cache'[thr[t].filename].cid # renko_cache[thr[t].filename].cid
            /\ CacheInfo'[thr[t].filename].age_seconds = 0

\* C2 (amended): an entry is reused only while its age is below TTL; a request
\* that finds the entry at age >= TTL (exactly TTL included) runs the
\* computation again; if the computation succeeds the entry is replaced, and
\* the store that replaces it leaves an entry whose age, as cache_info reports
\* it, is 0; if the computation fails the request leaves the cache alone.
C2_Expiry ==
    []C2_ExpiryState /\ [][C2_ExpiryStore]_vars

\* C2 witness: a request found the entry at age exactly TTL, recomputed, and has
\* just replaced the entry, whose reported age is 0 again.
C2_Witness ==
    \E t \in Threads :
        /\ thr[t].pc = "respond"
        /\ thr[t].obs = "present" /\ thr[t].obs_age = TTL
        /\ thr[t].calls = 1 /\ thr[t].wrote
        /\ renko_cache[thr[t].filename].cid = thr[t].cid
        /\ thr[t].cid > 1
        /\ CacheInfo[thr[t].filename].age_seconds = 0

\* every reader sees no entry or a complete entry of one computation
C3_EntryState ==
    /\ \A k \in Keys :
          \/ renko_cache[k] = NoEntry
          \/ /\ DOMAIN renko_cache[k] =
                   {"data", "timestamp", "original_rows", "file_path", "cid"}
             /\ renko_cache[k].timestamp <= now
             /\ OneComputation(k, renko_cache[k].data, renko_cache[k].original_rows,
                               TRUE, renko_cache[k].file_path)
             /\ CacheInfo[k].bars_count = Len(renko_cache[k].data)
             /\ CacheInfo[k].original_rows = renko_cache[k].original_rows
             /\ CacheInfo[k].file_path = renko_cache[k].file_path
    /\ \A t \in Threads :
          Reused(t) =>
              OneComputation(thr[t].filename, thr[t].renko_df, thr[t].original_rows,
                             FALSE, <<>>)

\* the entry that remains after a store is the one just written
C3_EntryStore ==
    \A t \in Threads :
        (thr[t].pc = "store" /\ thr'[t].pc = "respond") =>
            /\ renko_cache'[thr[t].filename].data = thr[t].renko_df
            /\ renko_cache'[thr[t].filename].original_rows = thr[t].original_rows
            /\ renko_cache'[thr[t].filename].file_path = thr[t].file_path
            /\ renko_cache'[thr[t].filename].timestamp = now

\* C3: under every interleaving of load requests, load_file and cache_info see
\* for each key either no entry or a complete entry {data, timestamp,
\* original_rows, file_path} whose fields all come from one computation, and
\* each store leaves exactly the entry of the request that stored, so after
\* concurrent misses the entry that remains is the one written last.
C3_NoPartialEntry ==
    []C3_EntryState /\ [][C3_EntryStore]_vars

\* C3 witness: two requests missed on the empty cache at the same time,
\* computed different bricks (the file changed in between), and both stored;
\* the entry that remains is the one of the later store.
C3_Witness ==
    \E t \in Threads, u \in Threads :
        /\ thr[t].obs = "absent" /\ thr[u].obs = "absent"
        /\ thr[t].wrote /\ thr[u].wrote
        /\ thr[t].cid < thr[u].cid
        /\ thr[t].renko_df # thr[u].renko_df
        /\ thr[t].original_rows # thr[u].original_rows
        /\ renko_cache[thr[u].filename].cid = thr[u].cid
        /\ renko_cache[thr[u].filename].data = thr[u].renko_df
        /\ renko_cache[thr[u].filename].original_rows = thr[u].original_rows

\* the request of thread t is between its cache check and its store
InCheckThenWrite(t) ==
    /\ thr[t].pc \in {"fp_read", "fp_write", "compute", "store"}
    /\ thr[t].obs \in {"absent", "present"}

\* C4 (as claimed): two requests that missed on the same key are never both
\* between the check and the store at the same time.
C4_MutualExclusionAsClaimed ==
    \A t \in Threads, u \in Threads :
        (t # u /\ thr[t].filename = thr[u].filename)
        => ~(InCheckThenWrite(t) /\ InCheckThenWrite(u))

\* C10: a request whose builder produced zero bricks ends with the error
\* "ValueError: No Renko data generated" in a 500 response, a message no other
\* failure carries and not a success with an empty brick list, and it never
\* writes the cache.
C10_NoBricksFormed ==
    \A t \in Threads :
        thr[t].bricks_built = 0 =>
            /\ thr[t].pc \in {"e1_read", "e1_write", "e2_read", "e2_write", "done"}
            /\ thr[t].exc = "ValueError: No Renko data generated"
            /\ ~thr[t].wrote
            /\ thr[t].renko_df = <<>>
            /\ thr[t].pc = "done" =>
                  thr[t].response = [status |-> 500,
                                     error |-> "ValueError: No Renko data generated"]

\* C10 witness: the file holds two bars whose closes are less than one brick
\* size apart; the request has ended with the 500 response and the cache has
\* no entry for the key.
C10_Witness ==
    \E t \in Threads :
        /\ thr[t].pc = "done"
        /\ thr[t].bricks_built = 0
        /\ Len(Resample(files[thr[t].filename].ticks)) = 2
        /\ thr[t].response.status = 500
        /\ renko_cache[thr[t].filename] = NoEntry

\* the failures of process_tick_data
Failures ==
    {"FileNotFoundError", "ValueError: Price column not found",
     "ValueError: No data remained after resampling to OHLC",
     "ValueError: No Renko data generated"}

\* the request of thread t failed in process_tick_data
FailedRequest(t) ==
    thr[t].exc \in Failures

\* a failed request has not written the cache; with one request at a time the
\* cache is at its end as the request found it
C11_FailureState ==
    \A t \in Threads :
        /\ thr[t].exc # "" => FailedRequest(t)
        /\ FailedRequest(t) =>
              /\ ~thr[t].wrote
              /\ thr[t].pc \in {"e1_read", "e1_write", "e2_read", "e2_write", "done"}
              /\ thr[t].obs = "absent" => renko_cache[thr[t].filename] = NoEntry
              /\ thr[t].obs = "present" =>
                    /\ renko_cache[thr[t].filename] # NoEntry
                    /\ now - renko_cache[thr[t].filename].timestamp = thr[t].obs_age

\* the cache changes only in the store of a computation that succeeded, and
\* then the whole entry of that key is assigned
C11_OnlyStoreWrites ==
    renko_cache' # renko_cache =>
        \E t \in Threads :
            /\ thr[t].pc = "store" /\ thr'[t].pc = "respond"
            /\ thr[t].exc = ""
            /\ thr[t].bricks_built > 0
            /\ Len(thr[t].renko_df) = thr[t].bricks_built
            /\ \A k \in Keys \ {thr[t].filename} : renko_cache'[k] = renko_cache[k]
            /\ \A fld \in {"data", "timestamp", "original_rows", "file_path"} :
                  fld \in DOMAIN renko_cache'[thr[t].filename]
            /\ renko_cache'[thr[t].filename].data = thr[t].renko_df

\* C11: a cache entry is created or replaced only by the store of a computation
\* that completed successfully, which assigns the whole entry; a request whose
\* computation fails (file not found, no price column, empty resample, no
\* bricks) never writes renko_cache, which is at the end of the request as it
\* was at its start.
C11_OnlySuccessWrites ==
    []C11_FailureState /\ [][C11_OnlyStoreWrites]_vars

\* C11 witness: a request found an expired entry, its recomputation failed on a
\* file without price column, it has been answered 500 and the entry is still
\* the old one.
C11_Witness ==
    \E t \in Threads :
        /\ thr[t].pc = "done"
        /\ thr[t].exc = "ValueError: Price column not found"
        /\ thr[t].response.status = 500
        /\ thr[t].obs = "present"
        /\ thr[t].obs_age >= TTL
        /\ renko_cache[thr[t].filename].cid = 1
        /\ CacheInfo[thr[t].filename].age_seconds = thr[t].obs_age

\* a store assigns exactly the new entry
C12_StoreOverwrites ==
    \A t \in Threads :
        (thr[t].pc = "store" /\ thr'[t].pc = "respond") =>
            /\ renko_cache' = [renko_cache EXCEPT ![thr[t].filename] =
                  [data |-> thr[t].renko_df, timestamp |-> now,
                   original_rows |-> thr[t].original_rows,
                   file_path |-> thr[t].file_path, cid |-> thr'[t].cid]]
            /\ Cardinality(DOMAIN CacheInfo') <= Cardinality(DOMAIN CacheInfo) + 1
            /\ renko_cache[thr[t].filename] # NoEntry =>
                  Cardinality(DOMAIN CacheInfo') = Cardinality(DOMAIN CacheInfo)

\* C12: the cache holds at most one entry per key (cache_info never reports
\* more entries than keys), and a store for a key that already has an entry
\* leaves the number of entries as it was and assigns the whole entry: data,
\* timestamp, original_rows and file_path are those of the storing
\* computation, nothing of the old entry is kept.
C12_OneEntryPerKey ==
    [](Cardinality(DOMAIN CacheInfo) <= Cardinality(Keys)) /\ [][C12_StoreOverwrites]_vars

\* C12 witness: a request stored over the entry another request had written;
\* data, timestamp, row count and path all differ from the old ones and the
\* entry holds only the new ones.
C12_Witness ==
    \E t \in Threads, u \in Threads :
        /\ thr[u].wrote /\ thr[u].cid = 1
        /\ thr[t].wrote /\ thr[t].cid = 2
        /\ thr[t].obs = "present"
        /\ thr[t].renko_df # thr[u].renko_df
        /\ thr[t].original_rows # thr[u].original_rows
        /\ thr[t].file_path # thr[u].file_path
        /\ renko_cache[thr[t].filename] =
              [data |-> thr[t].renko_df, timestamp |-> now,
               original_rows |-> thr[t].original_rows,
               file_path |-> thr[t].file_path, cid |-> 2]
        /\ now > 0

\* C13 (as claimed): a force-refresh of a key is not answered with the cached
\* result: the request that follows the eviction computes again, even when the
\* entry is younger than TTL.
C13_ForceRefreshAsClaimed ==
    \A t \in Threads :
        (thr[t].refresh /\ thr[t].pc \in {"respond", "done"} /\ thr[t].obs = "present")
        => thr[t].calls = 1

\* the response of cache_info
IsCacheInfoResponse(r) ==
    "cached_files" \in DOMAIN r

\* what cache_info answers: metadata of each entry, no bricks
C14_InfoState ==
    \A t \in Threads :
        (thr[t].pc = "done" /\ IsCacheInfoResponse(thr[t].response)) =>
            LET r == thr[t].response
            IN  /\ DOMAIN r = {"status", "cached_files", "total_cached"}
                /\ DOMAIN r.cached_files = {k \in Keys : renko_cache[k] # NoEntry}
                /\ \A k \in DOMAIN r.cached_files :
                      /\ DOMAIN r.cached_files[k] =
                            {"age_seconds", "cached_at", "bars_count",
                             "original_rows", "file_path"}
                      /\ r.cached_files[k].age_seconds = now - renko_cache[k].timestamp
                      /\ r.cached_files[k].bars_count = Len(renko_cache[k].data)
                      /\ r.cached_files[k].original_rows = renko_cache[k].original_rows
                      /\ r.cached_files[k].file_path = renko_cache[k].file_path
                      /\ "data" \notin DOMAIN r.cached_files[k]

\* the step of cache_info changes neither the cache nor the counters
C14_InfoStep ==
    \A t \in Threads :
        (thr[t].pc = "idle" /\ thr'[t].pc = "done"
         /\ IsCacheInfoResponse(thr'[t].response)) =>
            /\ renko_cache' = renko_cache
            /\ server_stats' = server_stats
            /\ now' = now

\* C14: cache_info answers, for each cached key, its age in seconds, the time
\* it was cached, the brick count, the original row count and the source path,
\* never the bricks, and it leaves renko_cache with every entry's timestamp as
\* it was.
C14_InspectReadOnly ==
    []C14_InfoState /\ [][C14_InfoStep]_vars

\* C14 witness: cache_info has answered while one file is cached, 150 s old.
C14_Witness ==
    \E t \in Threads :
        /\ thr[t].pc = "done"
        /\ IsCacheInfoResponse(thr[t].response)
        /\ thr[t].response.total_cached = 1
        /\ \E k \in DOMAIN thr[t].response.cached_files :
              /\ thr[t].response.cached_files[k].age_seconds > 0
              /\ thr[t].response.cached_files[k].bars_count > 0

\* -------------------------------------------- claims on process_tick_data
\* the strategies tried and the rows the fallback loop went through
C15_StrategyState ==
    /\ strategy_log \in {<<>>, <<"atr">>, <<"atr", "statistical">>}
    /\ Len(row_log) <= Len(ohcl_df)
    /\ strategy_log = <<"atr">> => (row_log = <<>> /\ bpc \in {"convert", "raised", "done"})
    /\ (strategy_log = <<"atr", "statistical">> /\ bpc \in {"convert", "raised", "done"})
          => Len(row_log) = Len(ohcl_df)
    /\ bpc \in {"resample", "resampled", "plot"} => strategy_log = <<>>
    /\ bpc = "raised" =>
          /\ renko_df = <<>>
          /\ Len(ohcl_df) = 0 => (strategy_log = <<>> /\ retvals = NoRetvals)
          /\ Len(ohcl_df) > 0 => Len(retvals.renko_bricks) = 0

C16_PositiveSizeAsClaimed ==
    /\ (bpc = "loop" /\ IsNum(brick_size)) => SizePositive(brick_size)
    /\ (variant = "interactive" /\ bpc \in {"convert", "done"}) =>
          \A i \in DOMAIN renko_df : SizePositive(renko_df[i].renko_size)

\* C17 (as claimed): resampling an empty tick sequence gives an empty bar
\* sequence and raises no error.
C17_EmptyNotAnErrorAsClaimed ==
    (tick_df = <<>> /\ bpc # "resample") => (ohcl_df = <<>> /\ bpc # "raised")

\* the bars have been produced from tick_df
Resampled ==
    bpc # "resample"

\* C18: every bar the resampler produces has low <= open <= high and
\* low <= close <= high, and a single tick gives exactly one bar with
\* open = high = low = close = the tick's price.
C18_BucketInvariant ==
    Resampled =>
        /\ \A i \in DOMAIN ohcl_df :
              /\ ohcl_df[i].low <= ohcl_df[i].open /\ ohcl_df[i].open <= ohcl_df[i].high
              /\ ohcl_df[i].low <= ohcl_df[i].close /\ ohcl_df[i].close <= ohcl_df[i].high
        /\ Len(tick_df) = 1 =>
              /\ Len(ohcl_df) = 1
              /\ \A fld \in {"open", "high", "low", "close"} :
                    ohcl_df[1][fld] = tick_df[1].price

\* C18 witness: a bucket of three ticks gave a bar whose open lies strictly
\* between low and high and whose close is the low.
C18_Witness ==
    /\ Resampled
    /\ \E i \in DOMAIN ohcl_df :
          /\ ohcl_df[i].low < ohcl_df[i].open
          /\ ohcl_df[i].open < ohcl_df[i].high
          /\ ohcl_df[i].close = ohcl_df[i].low

\* tick i falls in the bucket that ends at e
InBucket(i, e) ==
    /\ e - BucketSeconds < tick_df[i].timestamp
    /\ tick_df[i].timestamp <= e

\* C19: the bars are strictly increasing by bucket end-time (so no two bars
\* share a bucket), and there is a bar for a bucket exactly when a tick falls
\* in it: empty buckets are dropped.
C19_BarsOrdered ==
    Resampled =>
        /\ \A i \in DOMAIN ohcl_df, j \in DOMAIN ohcl_df :
              i < j => ohcl_df[i].date < ohcl_df[j].date
        /\ \A i \in DOMAIN ohcl_df :
              /\ ohcl_df[i].date % BucketSeconds = 0
              /\ \E k \in DOMAIN tick_df : InBucket(k, ohcl_df[i].date)
        /\ \A k \in DOMAIN tick_df :
              \E i \in DOMAIN ohcl_df : InBucket(k, ohcl_df[i].date)

\* C19 witness: ticks in the buckets ending at 0 and at 120 and none in the
\* bucket ending at 60: two bars, labelled 0 and 120, the second of two ticks.
C19_Witness ==
    /\ Resampled
    /\ Len(tick_df) = 3
    /\ Len(ohcl_df) = 2
    /\ ohcl_df[1].date = 0
    /\ ohcl_df[2].date = 2 * BucketSeconds

\* the ticks at t = 0 (100.0) and t = 61 s (100.5), in half points
ScenarioA ==
    <<Tick(0, 200), Tick(61, 201)>>

\* C20: buckets are one minute wide, closed on the right and labelled by their
\* right end: the tick at time t is in the bar labelled e, the smallest minute
\* boundary >= t, its price lies between that bar's low and high, and a tick
\* exactly on a boundary is the last of the bar ending there, so it gives its
\* close; the ticks (0, 100.0) and (61 s, 100.5) give two bars, the first with
\* open = high = low = close = 100.0, the second with open 100.5.
C20_RightClosed ==
    Resampled =>
        /\ \A k \in DOMAIN tick_df :
              \E i \in DOMAIN ohcl_df :
                  /\ ohcl_df[i].date % BucketSeconds = 0
                  /\ ohcl_df[i].date >= tick_df[k].timestamp
                  /\ ohcl_df[i].date - BucketSeconds < tick_df[k].timestamp
                  /\ ohcl_df[i].low <= tick_df[k].price
                  /\ tick_df[k].price <= ohcl_df[i].high
                  /\ tick_df[k].timestamp = ohcl_df[i].date =>
                        ohcl_df[i].close = tick_df[k].price
        /\ tick_df = ScenarioA =>
              /\ Len(ohcl_df) = 2
              /\ ohcl_df[1].date = 0
              /\ \A fld \in {"open", "high", "low", "close"} : ohcl_df[1][fld] = 200
              /\ ohcl_df[2].date = 2 * BucketSeconds
              /\ ohcl_df[2].open = 201

\* C20 witness: the two ticks of the scenario have been resampled, and so has
\* (in another run) a series with a tick exactly on the boundary 60.
C20_Witness ==
    /\ Resampled
    /\ \/ tick_df = ScenarioA /\ Len(ohcl_df) = 2
       \/ /\ Len(tick_df) = 2
          /\ tick_df[1].timestamp = 30 /\ tick_df[2].timestamp = BucketSeconds
          /\ Len(ohcl_df) = 1
          /\ ohcl_df[1].close = tick_df[2].price

\* ------------------------------------------------ claims on the bar fields
\* the rows of tick_df that fall in the bucket ending at e
RowsIn(e) ==
    SelectSeq(tick_df, LAMBDA r : e - BucketSeconds < r.timestamp /\ r.timestamp <= e)

\* the bars have been made from the rows of the file
BarsMade ==
    bpc \in {"resampled", "raised"}

\* C21 (as claimed): for every bar, open is the price of the earliest tick of
\* the bucket and close the price of the latest, whatever the order of the
\* rows in the file, high and low are the largest and smallest price, and
\* volume is the sum of the sizes, a tick without a size counting as 1.
C21_BarFieldsAsClaimed ==
    BarsMade =>
        \A i \in DOMAIN ohcl_df :
            LET rows == RowsIn(ohcl_df[i].date)
                first == CHOOSE r \in {rows[k] : k \in DOMAIN rows} :
                             \A k \in DOMAIN rows : r.timestamp <= rows[k].timestamp
                last == CHOOSE r \in {rows[k] : k \in DOMAIN rows} :
                            \A k \in DOMAIN rows : r.timestamp >= rows[k].timestamp
            IN  /\ ohcl_df[i].open = first.price
                /\ ohcl_df[i].close = last.price
                /\ \A k \in DOMAIN rows :
                      ohcl_df[i].low <= rows[k].price /\ rows[k].price <= ohcl_df[i].high
                /\ \E k \in DOMAIN rows : rows[k].price = ohcl_df[i].high
                /\ \E k \in DOMAIN rows : rows[k].price = ohcl_df[i].low
                /\ ohcl_df[i].volume =
                      SumSeq([k \in DOMAIN rows |->
                                 IF rows[k].size = MissingSize THEN 1 ELSE rows[k].size])

\* ------------------------------------------------------ claims on requests
\* thread t ran process_tick_data and the computation ended
Ran(t) ==
    thr[t].src # <<>>

C23_NoSubstituteAsClaimed ==
    \A t \in Threads :
        (thr[t].pc = "done" /\ thr[t].exc # "") =>
            /\ thr[t].response.status # 200
            /\ "renko" \notin DOMAIN thr[t].response

\* ------------------------------------- claims on the single-dataset server
\* thread t takes a step
Steps(t) ==
    thr'[t] # thr[t]

\* what holds of every request of the single-dataset server
C30_HeldState ==
    /\ bpc = "none" => server_stats.data_refreshes = 0
    /\ \A t \in Threads :
          /\ (thr[t].calls > 0 /\ ~thr[t].refresh) => thr[t].obs = "none"
          /\ (thr[t].obs = "held" /\ ~thr[t].refresh) =>
                (thr[t].calls = 0 /\ thr[t].pc \in {"a_convert", "done"})
          /\ thr[t].calls <= 1

\* what every step of the single-dataset server respects
C30_HeldStep ==
    /\ bpc = "held" => bpc' = "held"
    /\ server_stats'.data_refreshes # server_stats.data_refreshes =>
          /\ server_stats'.data_refreshes = server_stats.data_refreshes + 1
          /\ \/ bpc = "boot" /\ renko_df' # AppFallbackRows
             \/ \E t \in Threads :
                   /\ thr[t].pc = "a_generate" /\ thr'[t].pc = "a_assign"
                   /\ thr'[t].exc = ""
    /\ \A t \in Threads :
          (thr[t].pc = "a_convert" /\ Steps(t)) =>
              /\ thr'[t].response.renko = ToJsonApp(renko_df)
              /\ renko_df' = renko_df
    /\ (bpc = "held" /\ renko_df' # renko_df) =>
          \E t \in Threads : Steps(t) /\ (thr[t].refresh \/ thr[t].obs = "none")

Succeeded(t) ==
    thr[t].pc = "done" /\ thr[t].response.status = 200 /\ "renko_bars" \in DOMAIN thr[t].response

\* C24: in every success response of load_file, renko_bars is the number of
\* records returned, the records are the rows of the brick DataFrame in its
\* order (brick dates never decrease), and original_rows is the number of
\* ticks of the one computation that produced these bricks, whether the
\* request computed them itself (miss) or took them from the cache (hit).
C24_MetadataConsistent ==
    \A t \in Threads :
        Succeeded(t) =>
            LET r == thr[t].response
            IN  /\ r.renko_bars = Len(r.renko)
                /\ r.renko_bars = Len(thr[t].renko_df)
                /\ \A i \in DOMAIN r.renko : r.renko[i].date = thr[t].renko_df[i].renko_dates
                /\ \A i \in DOMAIN r.renko, j \in DOMAIN r.renko :
                      i < j => r.renko[i].date <= r.renko[j].date
                /\ OneComputation(thr[t].filename, thr[t].renko_df, r.original_rows,
                                  FALSE, <<>>)
                /\ Ran(t) => r.original_rows = Len(thr[t].src[1].ticks)

\* C24 witness: one request computed three bricks from the four ticks of the
\* parquet file, a second one was served the same entry from the cache; both
\* responses are out.
C24_Witness ==
    \E t \in Threads, u \in Threads :
        /\ Succeeded(t) /\ Succeeded(u)
        /\ Ran(u) /\ thr[u].wrote
        /\ Reused(t) /\ thr[t].cid = thr[u].cid
        /\ thr[t].response.original_rows = 4
        /\ thr[t].response.renko_bars >= 2
        /\ thr[t].response.renko_bars # thr[t].response.original_rows

\* ------------------------------------------- claims on the fallback size
\* the fallback has computed its brick size
FallbackSized ==
    variant = "interactive" /\ bpc \in {"loop", "convert", "raised", "done"} /\ row_i > 0

\* C25 (as claimed): for every series of at least one bar the fallback brick
\* size is 0.5 times the population standard deviation of the closes:
\* size^2 = (N * sum(c^2) - sum(c)^2) / (4 * N^2).
C25_PopulationStdAsClaimed ==
    FallbackSized =>
        LET c == Closes(ohcl_df)
            N == Len(c)
        IN  /\ IsNum(brick_size)
            /\ brick_size.n * 4 * N * N =
                   (N * SumSeq(Squares(c)) - SumSeq(c) * SumSeq(c)) * brick_size.d

\* ------------------------------------------------ claims on cache lifetime
\* a request that was served from the cache never wrote it, and the entry it
\* was served, while still in the cache, is at least as old as it was found
C26_HitState ==
    \A t \in Threads :
        Reused(t) =>
            /\ ~thr[t].wrote
            /\ thr[t].obs_age < TTL
            /\ renko_cache[thr[t].filename].cid = thr[t].cid =>
                  /\ now - renko_cache[thr[t].filename].timestamp >= thr[t].obs_age
                  /\ renko_cache[thr[t].filename].data = thr[t].renko_df
                  /\ renko_cache[thr[t].filename].original_rows = thr[t].original_rows

\* no step of a request that is served from the cache changes renko_cache
C26_HitStep ==
    \A t \in Threads :
        (Steps(t) /\ thr'[t].obs = "present" /\ thr'[t].obs_age < TTL
                  /\ thr'[t].pc \in {"respond", "done"}) =>
            renko_cache' = renko_cache

\* C26: serving a request from a cached entry leaves the entry's data,
\* timestamp, original_rows and file_path as they were: a hit does not restart
\* the entry's age, which keeps counting from the time it was computed.
C26_HitReadOnly ==
    []C26_HitState /\ [][C26_HitStep]_vars

\* C26 witness: an entry computed at time 0 was reused 150 s later; after the
\* response it is still the same entry with timestamp 0.
C26_Witness ==
    \E t \in Threads :
        /\ Reused(t) /\ thr[t].pc = "done"
        /\ thr[t].obs_age = TTL \div 2
        /\ renko_cache[thr[t].filename].cid = thr[t].cid
        /\ renko_cache[thr[t].filename].timestamp = 0
        /\ now - renko_cache[thr[t].filename].timestamp = TTL \div 2

\* an expired entry is still there after a recomputation for it failed, and
\* cache_info reports every entry, whatever its age
C27_KeysState ==
    \A t \in Threads :
        /\ (FailedRequest(t) /\ FoundExpired(t)) =>
              /\ renko_cache[thr[t].filename] # NoEntry
              /\ CacheInfo[thr[t].filename].age_seconds >= TTL
        /\ (thr[t].pc = "done" /\ IsCacheInfoResponse(thr[t].response)) =>
              \A k \in Keys :
                  renko_cache[k] # NoEntry =>
                      /\ k \in DOMAIN thr[t].response.cached_files
                      /\ thr[t].response.cached_files[k].age_seconds =
                            now - renko_cache[k].timestamp

\* no step removes an entry, and an entry changes only in the store of a
\* computation that succeeded for its key
C27_KeysStep ==
    \A k \in Keys :
        /\ renko_cache[k] # NoEntry => renko_cache'[k] # NoEntry
        /\ renko_cache'[k] # renko_cache[k] =>
              \E t \in Threads :
                  /\ thr[t].pc = "store" /\ thr'[t].pc = "respond"
                  /\ thr[t].filename = k
                  /\ thr[t].exc = ""
                  /\ thr[t].calls = 1

\* C27: in the file-selection server the set of cached keys never shrinks: no
\* step removes an entry; an expired entry stays in renko_cache, and cache_info
\* reports it with its age >= TTL, until the store of a successful
\* recomputation for the same key replaces it; a recomputation that fails
\* after the expiry leaves the expired entry in place.
C27_KeysNeverShrink ==
    []C27_KeysState /\ [][C27_KeysStep]_vars

\* C27 witness: cache_info has reported an entry that expired (its age has
\* reached the TTL) and is still in renko_cache.
C27_Witness ==
    \E t \in Threads, k \in Keys :
        /\ thr[t].pc = "done"
        /\ IsCacheInfoResponse(thr[t].response)
        /\ k \in DOMAIN thr[t].response.cached_files
        /\ thr[t].response.cached_files[k].age_seconds >= TTL
        /\ renko_cache[k] # NoEntry

\* ------------------------------------------------- claims on server_stats
\* the threads whose request has been counted in requests_served
CountedRequests ==
    {t \in Threads : /\ thr[t].pc \notin {"idle", "rs_write"}
                     /\ ~IsCacheInfoResponse(thr[t].response)}

\* the threads whose computation has been counted in files_processed
CountedFiles ==
    {t \in Threads : thr[t].calls = 1 /\ thr[t].pc # "fp_write"}

\* C28 (as claimed): no increment of requests_served or files_processed is
\* lost, also when requests overlap: the requests in progress that passed
\* their increment are all in the counter, and files_processed never exceeds
\* requests_served.
C28_NoLostIncrementAsClaimed ==
    /\ server_stats.requests_served >= Cardinality(CountedRequests)
    /\ server_stats.files_processed >= Cardinality(CountedFiles)
    /\ server_stats.files_processed <= server_stats.requests_served

\* C29 (as claimed): every load-file request that ends in a failure response
\* (404 or 500) adds exactly one to errors, and a successful one adds nothing:
\* errors never exceeds the number of requests, and after the first request it
\* is 1 if the request failed and 0 if it succeeded.
C29_OneErrorPerFailureAsClaimed ==
    /\ server_stats.errors <= n_requests
    /\ \A t \in Threads :
          (thr[t].pc = "done" /\ n_requests = 1) =>
              /\ thr[t].response.status \in {404, 500} => server_stats.errors = 1
              /\ thr[t].response.status = 200 => server_stats.errors = 0

====
